---- MODULE Spec2Model ----
(***************************************************************************)
(* Model of the report generator of src/pdf_generator.py: generate_pdf and *)
(* its helpers download_file, render_pdf_page, render_image and get_val;   *)
(* and of the two handlers of src/app.py that write to Google Drive and    *)
(* to the sheet, handle_submission and handle_data_update.                 *)
(*                                                                         *)
(* Python strings are sequences of one-character strings, so that strip,   *)
(* split and len are computed as the code computes them.  The canvas is    *)
(* the list of drawing operations of the page being drawn (page) and the   *)
(* list of pages already sealed by showPage (pages).                       *)
(***************************************************************************)
EXTENDS Integers, Sequences, FiniteSets, TLC

\* ---------------------------------------------------------------- values

\* Python's None where a string is expected; no string equals it, since a
\* string is a sequence of single characters.
None == <<"<None>">>

\* Python truthiness of a string-or-None value.
Truthy(v) == v # None /\ v # <<>>

Min(S) == CHOOSE x \in S : \A y \in S : x <= y
Max(S) == CHOOSE x \in S : \A y \in S : x >= y

\* The characters str.strip() removes.
IsSpace(ch) == ch \in {" ", "\n", "\t"}

\* str.strip()
Strip(str) ==
    LET keep == {k \in 1..Len(str) : ~IsSpace(str[k])}
    IN  IF keep = {} THEN <<>> ELSE SubSeq(str, Min(keep), Max(keep))

\* re.split(r'[,\n]', str): the pieces between separators, empty ones included.
RECURSIVE Split(_)
Split(str) ==
    LET seps == {k \in 1..Len(str) : str[k] \in {",", "\n"}}
    IN  IF seps = {} THEN <<str>>
        ELSE <<SubSeq(str, 1, Min(seps) - 1)>>
                 \o Split(SubSeq(str, Min(seps) + 1, Len(str)))

\* [u.strip() for u in seq]: the length filter left out.
RECURSIVE SelectStripAll(_, _)
SelectStripAll(seq, minlen) ==
    IF seq = <<>> THEN <<>>
    ELSE <<Strip(Head(seq))>> \o SelectStripAll(Tail(seq), minlen)

\* [u.strip() for u in seq if len(u.strip()) > minlen]
RECURSIVE SelectStrip(_, _)
SelectStrip(seq, minlen) ==
    IF seq = <<>> THEN <<>>
    ELSE LET u == Strip(Head(seq))
         IN  (IF Len(u) > minlen THEN <<u>> ELSE <<>>)
                 \o SelectStrip(Tail(seq), minlen)

\* ------------------------------------------------ 1. network and files

\* [a-zA-Z0-9_-]
IdChars ==
    {"a", "b", "c", "d", "e", "f", "g", "h", "i", "j", "k", "l", "m",
        "n", "o", "p", "q", "r", "s", "t", "u", "v", "w", "x", "y", "z"}
    \cup {"A", "B", "C", "D", "E", "F", "G", "H", "I", "J", "K", "L", "M",
        "N", "O", "P", "Q", "R", "S", "T", "U", "V", "W", "X", "Y", "Z"}
    \cup {"0", "1", "2", "3", "4", "5", "6", "7", "8", "9"}
    \cup {"_", "-"}

\* str[k:].startswith(lit)
MatchAt(str, k, lit) ==
    /\ k >= 1
    /\ k + Len(lit) - 1 <= Len(str)
    /\ SubSeq(str, k, k + Len(lit) - 1) = lit

\* The greedy group ([a-zA-Z0-9_-]+) matched from position k.
IdRun(str, k) ==
    LET stop == {j \in k..Len(str) : str[j] \notin IdChars}
    IN  SubSeq(str, k, IF stop = {} THEN Len(str) ELSE Min(stop) - 1)

\* re.search of prefix literal `lit` followed by at least one id character,
\* where the literal's first character may be any of `first`: the leftmost
\* position after the literal, or 0 when there is no match.
SearchId(str, first, lit) ==
    LET hits == {k \in 1..Len(str) :
                    /\ str[k] \in first
                    /\ MatchAt(str, k + 1, lit)
                    /\ k + Len(lit) + 1 <= Len(str)
                    /\ str[k + Len(lit) + 1] \in IdChars}
    IN  IF hits = {} THEN 0 ELSE Min(hits) + Len(lit) + 1

\* extract_drive_id trying the id= pattern before the /file/d/ pattern.
extract_drive_idQueryFirst(url) ==
    IF ~Truthy(url) THEN None
    ELSE LET m1 == SearchId(url, {"/"}, <<"f", "i", "l", "e", "/", "d", "/">>)
             m2 == SearchId(url, {"?", "&"}, <<"i", "d", "=">>)
         IN  IF m2 # 0 THEN IdRun(url, m2)
             ELSE IF m1 # 0 THEN IdRun(url, m1)
             ELSE None

extract_drive_id(url) ==
    IF ~Truthy(url) THEN None
    ELSE LET m1 == SearchId(url, {"/"}, <<"f", "i", "l", "e", "/", "d", "/">>)
             m2 == SearchId(url, {"?", "&"}, <<"i", "d", "=">>)
         IN  IF m1 # 0 THEN IdRun(url, m1)
             ELSE IF m2 # 0 THEN IdRun(url, m2)
             ELSE None

\* "https://drive.google.com/uc?export=download&id="
DrivePrefix ==
    <<"h", "t", "t", "p", "s", ":", "/", "/", "d", "r", "i", "v", "e", ".",
    "g", "o", "o", "g", "l", "e", ".", "c", "o", "m", "/", "u", "c", "?",
    "e", "x", "p", "o", "r", "t", "=", "d", "o", "w", "n", "l", "o", "a",
    "d", "&", "i", "d", "=">>

\* What a URL can serve.  A body is [kind, boxes, size]: the MediaBox
\* <<x, y, w, h>> of each page of a PDF, the pixel size of an image.
Body(kind, boxes, size) == [kind |-> kind, boxes |-> boxes, size |-> size]

\* The None in the first component of download_file's (None, None).
NoContent == Body("none", <<>>, <<0, 0>>)

PdfBody == Body("pdf", << <<0, 0, 595, 842>> >>, <<0, 0>>)
ImageBody == Body("image", <<>>, <<4, 3>>)
\* Bytes that neither PdfReader nor ImageReader can read.
BrokenBody == Body("broken", <<>>, <<0, 0>>)
HtmlBody == Body("html", <<>>, <<0, 0>>)

\* What requests.get can do: status 0 stands for the exceptions it raises
\* (timeout, connection error), otherwise the HTTP status with the body and
\* the Content-Type header.
Response(status, content, ctype) ==
    [status |-> status, content |-> content, ctype |-> ctype]

Unreachable == Response(0, NoContent, "")
PdfDrawn    == Response(200, PdfBody, "application/pdf")
PdfBroken   == Response(200, BrokenBody, "application/pdf")
ImageDrawn  == Response(200, ImageBody, "image/png")
ImageBroken == Response(200, BrokenBody, "image/jpeg")
UnknownType == Response(200, HtmlBody, "text/html")

\* The responses a certificate or letter fetch is given.
Responses ==
    {Unreachable, PdfDrawn, PdfBroken, ImageDrawn, ImageBroken, UnknownType}

\* The responses a photo fetch is given.
FotoResponses == {Unreachable, PdfDrawn, ImageDrawn, ImageBroken}

\* 'application/pdf' in ctype
HasPdfType(ctype) == ctype \in {"application/pdf"}

\* 'image' in ctype
HasImageType(ctype) == ctype \in {"image/png", "image/jpeg"}

\* `if content:` always taken.
HasContentAlways(content) == TRUE

\* `if content:` on the bytes (or None) download_file returned.
HasContent(content) == content.kind \notin {"none", "empty"}

\* download_file asking a second time when the first request fails.
download_fileRetry(url, resp) ==
    IF ~Truthy(url) \/ Len(url) < 5
    THEN [content |-> NoContent, ctype |-> "", req |-> <<>>]
    ELSE LET file_id == extract_drive_id(url)
             target_url == IF Truthy(file_id)
                           THEN DrivePrefix \o file_id
                           ELSE url
         IN  IF resp.status = 200
             THEN [content |-> resp.content, ctype |-> resp.ctype,
                   req |-> <<target_url>>]
             ELSE [content |-> NoContent, ctype |-> "",
                   req |-> <<target_url, target_url>>]

\* download_file returning the body whatever the status.
download_fileAnyStatus(url, resp) ==
    IF ~Truthy(url) \/ Len(url) < 5
    THEN [content |-> NoContent, ctype |-> "", req |-> <<>>]
    ELSE LET file_id == extract_drive_id(url)
             target_url == IF Truthy(file_id)
                           THEN DrivePrefix \o file_id
                           ELSE url
         IN  IF resp.status # 0
             THEN [content |-> resp.content, ctype |-> resp.ctype,
                   req |-> <<target_url>>]
             ELSE [content |-> NoContent, ctype |-> "",
                   req |-> <<target_url>>]

\* download_file refusing every reference of fewer than 7 characters.
download_fileLongGuard(url, resp) ==
    IF ~Truthy(url) \/ Len(url) < 7
    THEN [content |-> NoContent, ctype |-> "", req |-> <<>>]
    ELSE LET file_id == extract_drive_id(url)
             target_url == IF Truthy(file_id)
                           THEN DrivePrefix \o file_id
                           ELSE url
         IN  IF resp.status = 200
             THEN [content |-> resp.content, ctype |-> resp.ctype,
                   req |-> <<target_url>>]
             ELSE [content |-> NoContent, ctype |-> "",
                   req |-> <<target_url>>]

\* download_file(url), the network answering `resp` if it is asked:
\* [content, ctype] is the pair returned, req the requests issued.
download_file(url, resp) ==
    IF ~Truthy(url) \/ Len(url) < 5
    THEN [content |-> NoContent, ctype |-> "", req |-> <<>>]
    ELSE LET file_id == extract_drive_id(url)
             target_url == IF Truthy(file_id)
                           THEN DrivePrefix \o file_id
                           ELSE url
         IN  IF resp.status = 200
             THEN [content |-> resp.content, ctype |-> resp.ctype,
                   req |-> <<target_url>>]
             ELSE [content |-> NoContent, ctype |-> "",
                   req |-> <<target_url>>]

\* --------------------------------------------------------- 2. rendering

\* Lengths on the canvas are counted in half millimetres, the finest unit
\* the code's lengths are multiples of: reportlab's mm, and its A4 of
\* 210 mm by 297 mm.
mm == 2
A4 == <<210 * mm, 297 * mm>>

\* Python's float arithmetic, computed exactly: a number is the reduced
\* fraction <<numerator, denominator>> with a positive denominator.
Abs(n) == IF n < 0 THEN -n ELSE n
RECURSIVE GCD(_, _)
GCD(a, b) == IF b = 0 THEN a ELSE GCD(b, a % b)
Q(n, d) ==
    LET g == GCD(Abs(n), Abs(d))
        sign == IF d < 0 THEN -1 ELSE 1
    IN  <<(sign * n) \div g, (sign * d) \div g>>
Num(n) == Q(n, 1)
QLe(a, b) == a[1] * b[2] <= b[1] * a[2]
QMin(a, b) == IF QLe(a, b) THEN a ELSE b
QAdd(a, b) == Q(a[1] * b[2] + b[1] * a[2], a[2] * b[2])
QSub(a, b) == Q(a[1] * b[2] - b[1] * a[2], a[2] * b[2])
QMul(a, b) == Q(a[1] * b[1], a[2] * b[2])
QDiv(a, b) == Q(a[1] * b[2], a[2] * b[1])

\* A drawing operation on the canvas.  drawString carries its literal text,
\* the ordinal formatted into it (0: none) and the value formatted into it;
\* box holds the numbers of an operation that places something.
DrawString(text, ord, val) ==
    [op |-> "drawString", text |-> text, ord |-> ord, val |-> val,
     box |-> <<>>]
DoForm(page_idx) ==
    [op |-> "doForm", text |-> "", ord |-> page_idx, val |-> <<>>,
     box |-> <<>>]
\* c.drawImage(img, x, y, width=dw, height=dh), on the whole page or in cell
\* `slot` (2 * row + col) of the grid.
DrawImage(where, slot, x, y, dw, dh) ==
    [op |-> "drawImage", text |-> where, ord |-> slot, val |-> <<>>,
     box |-> <<x, y, dw, dh>>]

\* c.saveState(), c.translate(pos_x, pos_y) with c.scale(sx, sy), and
\* c.restoreState().
SaveState ==
    [op |-> "saveState", text |-> "", ord |-> 0, val |-> <<>>, box |-> <<>>]
Transform(pos_x, pos_y, sx, sy) ==
    [op |-> "transform", text |-> "", ord |-> 0, val |-> <<>>,
     box |-> <<pos_x, pos_y, sx, sy>>]
RestoreState ==
    [op |-> "restoreState", text |-> "", ord |-> 0, val |-> <<>>,
     box |-> <<>>]

\* The kinds of bytes PdfReader reads: a PDF whose page makerl and doForm
\* embed, and one whose page they raise on.
PdfKinds == {"pdf", "pdf-unembeddable"}

\* render_pdf_page(c, pdf_bytes, page_idx): ok is the value returned, page
\* the operations of the current page afterwards.
render_pdf_page(page, pdf_bytes, page_idx) ==
    LET n == Len(pdf_bytes.boxes)
        failed == [ok |-> FALSE, page |-> page]
    IN  IF pdf_bytes.kind \notin PdfKinds THEN failed
        ELSE IF page_idx >= n \/ page_idx < -n THEN failed
        ELSE LET bbox == pdf_bytes.boxes[(page_idx % n) + 1]
             IN  IF bbox = <<>> THEN failed
                 ELSE IF bbox[3] = 0 \/ bbox[4] = 0 THEN failed
                 ELSE
             LET w == Num(bbox[3])
                 h == Num(bbox[4])
                 page_w == Num(A4[1])
                 page_h == Num(A4[2])
                 margin == Num(15 * mm)
                 target_w == QSub(page_w, QMul(Num(2), margin))
                 target_h == QSub(page_h, QMul(Num(2), margin))
                 scale == QMin(QDiv(target_w, w), QDiv(target_h, h))
                 final_w == QMul(w, scale)
                 final_h == QMul(h, scale)
                 pos_x == QDiv(QSub(page_w, final_w), Num(2))
                 pos_y == QDiv(QSub(page_h, final_h), Num(2))
                 scoped == page \o <<SaveState,
                                     Transform(pos_x, pos_y, scale, scale)>>
             IN  IF pdf_bytes.kind = "pdf-unembeddable"
                 THEN [ok |-> FALSE, page |-> scoped]
                 ELSE [ok |-> TRUE,
                       page |-> scoped \o <<DoForm(page_idx), RestoreState>>]

\* ImageReader reads the bytes and min(target_w/iw, target_h/ih) divides by
\* neither a zero width nor a zero height.
ImageFits(img_bytes) ==
    /\ img_bytes.kind = "image"
    /\ img_bytes.size[1] # 0
    /\ img_bytes.size[2] # 0

\* render_image scaling by the larger of the two ratios, so that the image
\* fills the target.
render_imageFill(page, img_bytes) ==
    IF ~ImageFits(img_bytes)
    THEN [ok |-> FALSE, page |-> page]
    ELSE LET iw == Num(img_bytes.size[1])
             ih == Num(img_bytes.size[2])
             page_w == Num(A4[1])
             page_h == Num(A4[2])
             margin == Num(20 * mm)
             target_w == QSub(page_w, QMul(Num(2), margin))
             target_h == QSub(page_h, QMul(Num(2), margin))
             scale == IF QLe(QDiv(target_w, iw), QDiv(target_h, ih))
                      THEN QDiv(target_h, ih)
                      ELSE QDiv(target_w, iw)
             dw == QMul(iw, scale)
             dh == QMul(ih, scale)
             x == QDiv(QSub(page_w, dw), Num(2))
             y == QDiv(QSub(page_h, dh), Num(2))
         IN  [ok |-> TRUE,
              page |-> Append(page, DrawImage("page", 0, x, y, dw, dh))]

\* render_image(c, img_bytes), max_h left at its default None.
render_image(page, img_bytes) ==
    IF ~ImageFits(img_bytes)
    THEN [ok |-> FALSE, page |-> page]
    ELSE LET iw == Num(img_bytes.size[1])
             ih == Num(img_bytes.size[2])
             page_w == Num(A4[1])
             page_h == Num(A4[2])
             margin == Num(20 * mm)
             target_w == QSub(page_w, QMul(Num(2), margin))
             target_h == QSub(page_h, QMul(Num(2), margin))
             scale == QMin(QDiv(target_w, iw), QDiv(target_h, ih))
             dw == QMul(iw, scale)
             dh == QMul(ih, scale)
             x == QDiv(QSub(page_w, dw), Num(2))
             y == QDiv(QSub(page_h, dh), Num(2))
         IN  [ok |-> TRUE,
              page |-> Append(page, DrawImage("page", 0, x, y, dw, dh))]

\* ---------------------------------------------------------- 3. generator

\* The length a link must exceed to be used (len(...) > 5), and below which
\* download_file refuses it (len(...) < 5).
MinLinkLen == 5

\* The characters of a field value drawn on the info page (value[:75]).
MaxValueLen == 75

VARIABLES
    data_dict,          \* the record passed to generate_pdf
    pc,                 \* the section generate_pdf is about to run
    page,               \* operations drawn on the current page
    pages,              \* pages sealed by showPage, in order
    urls,               \* letter links kept by the split
    idx,                \* index of the letter loop
    img_urls,           \* photo links collected from Link_Foto1..4
    i,                  \* index of the photo loop
    valid_img_count,    \* photos placed in the grid so far
    calls,              \* download_file calls: section, url, response given
    net,                \* URLs requested from the network, in order
    result,             \* "none" while running, "buffer" once returned
    arg,                \* the argument of a helper called on its own
    ret,                \* what that helper returned
    second,             \* a second generate_pdf invocation: record and state
    sheet,              \* the rows of the worksheet, below its header
    drive,              \* what the app created on Google Drive, in order
    app                 \* an app handler running: its locals, its calls of
                        \* the Google services, what it showed the user

vars == <<data_dict, pc, page, pages, urls, idx, img_urls, i,
          valid_img_count, calls, net, result, arg, ret, second,
          sheet, drive, app>>

\* data_dict.get(k)
Get(d, k) == IF k \in DOMAIN d THEN d[k] ELSE None

\* a or b
Or(a, b) == IF Truthy(a) THEN a ELSE b

\* get_val giving up at the first key that is present, blank or not.
RECURSIVE get_valFirstPresent(_, _, _)
get_valFirstPresent(d, keys, default) ==
    IF keys = <<>> THEN default
    ELSE LET k == Head(keys)
         IN  IF k \in DOMAIN d
             THEN IF d[k] # None /\ Strip(d[k]) # <<>>
                  THEN Strip(d[k]) ELSE default
             ELSE get_valFirstPresent(d, Tail(keys), default)

\* get_val(keys, default)
RECURSIVE get_val(_, _, _)
get_val(d, keys, default) ==
    IF keys = <<>> THEN default
    ELSE LET k == Head(keys)
         IN  IF k \in DOMAIN d /\ d[k] # None /\ Strip(d[k]) # <<>>
             THEN Strip(d[k])
             ELSE get_val(d, Tail(keys), default)

Dash == <<"-">>

\* A value with a strftime method (a date, a datetime): its marker followed
\* by the digits of year, month and day.  No string equals one.
DateValue(digits) == <<"<date>">> \o digits

\* hasattr(v, 'strftime')
IsDate(v) == v # <<>> /\ v[1] = "<date>"

\* v.strftime('%Y-%m-%d')
strftime(v) ==
    SubSeq(v, 2, 5) \o <<"-">> \o SubSeq(v, 6, 7) \o <<"-">> \o SubSeq(v, 8, 9)

\* The date field.
Tarikh(d) ==
    LET raw_date == Or(Or(Get(d, "Tarikh"), Get(d, "str(Tarikh)")),
                       Get(d, "Tarikh Program"))
    IN  IF IsDate(raw_date) THEN strftime(raw_date)
        ELSE IF Truthy(raw_date) /\ Strip(raw_date) # <<>> THEN raw_date
        ELSE Dash

\* fields
Fields(d) ==
    << <<"Nama Pelajar", get_val(d, <<"Nama Pelajar", "Nama">>, Dash)>>,
       <<"Kelas", get_val(d, <<"Kelas">>, Dash)>>,
       <<"Tarikh Program", Tarikh(d)>>,
       <<"Tajuk Aktiviti",
         get_val(d, <<"Tajuk Pertandingan", "Tajuk Activity", "Tajuk">>, Dash)>>,
       <<"Penganjur", get_val(d, <<"Penganjur">>, Dash)>>,
       <<"Tempat", get_val(d, <<"Tempat">>, Dash)>>,
       <<"Peringkat", get_val(d, <<"Peringkat">>, Dash)>>,
       <<"Pencapaian", get_val(d, <<"Pencapaian">>, Dash)>> >>

\* value[:75] with the ellipsis added from 75 characters on.
TruncatedFromLimit(value) ==
    IF Len(value) >= MaxValueLen
    THEN SubSeq(value, 1, MaxValueLen) \o <<".", ".", ".">>
    ELSE value

\* value[:75] + ("..." if len(value) > 75 else "")
Truncated(value) ==
    IF Len(value) > MaxValueLen
    THEN SubSeq(value, 1, MaxValueLen) \o <<".", ".", ".">>
    ELSE value

\* The label and value operations of the info page, field by field.
RECURSIVE FieldOps(_)
FieldOps(fields) ==
    IF fields = <<>> THEN <<>>
    ELSE << DrawString(Head(fields)[1], 0, <<":">>),
            DrawString("", 0, Truncated(Head(fields)[2])) >>
             \o FieldOps(Tail(fields))

\* The program state as one record, so that each section is a function of it.
State ==
    [pc |-> pc, page |-> page, pages |-> pages, urls |-> urls, idx |-> idx,
     img_urls |-> img_urls, i |-> i, valid_img_count |-> valid_img_count,
     calls |-> calls, net |-> net, result |-> result]

\* The state generate_pdf starts in, as a record.
StartState ==
    [pc |-> "info", page |-> <<>>, pages |-> <<>>, urls |-> <<>>, idx |-> 0,
     img_urls |-> <<>>, i |-> 0, valid_img_count |-> 0, calls |-> <<>>,
     net |-> <<>>, result |-> "none"]

\* SetState with get_val writing the stripped values back into the record.
SetStateWritingBack(s) ==
    /\ pc' = s.pc
    /\ page' = s.page
    /\ pages' = s.pages
    /\ urls' = s.urls
    /\ idx' = s.idx
    /\ img_urls' = s.img_urls
    /\ i' = s.i
    /\ valid_img_count' = s.valid_img_count
    /\ calls' = s.calls
    /\ net' = s.net
    /\ result' = s.result
    /\ data_dict' = [k \in DOMAIN data_dict |-> Strip(data_dict[k])]
    /\ UNCHANGED <<arg, ret, second,
                   sheet, drive, app>>

\* A step of generate_pdf: its locals and canvas take the values of s.  The
\* record is only read, by data_dict.get(k), `k in data_dict` and
\* data_dict[k] (lines 158-161, 170, 286).
SetState(s) ==
    /\ pc' = s.pc
    /\ page' = s.page
    /\ pages' = s.pages
    /\ urls' = s.urls
    /\ idx' = s.idx
    /\ img_urls' = s.img_urls
    /\ i' = s.i
    /\ valid_img_count' = s.valid_img_count
    /\ calls' = s.calls
    /\ net' = s.net
    /\ result' = s.result
    /\ UNCHANGED <<data_dict, arg, ret, second,
                   sheet, drive, app>>

\* c.drawString(...)
drawString(s, text, ord) ==
    [s EXCEPT !.page = Append(@, DrawString(text, ord, <<>>))]

\* c.showPage()
showPage(s) == [s EXCEPT !.pages = Append(@, s.page), !.page = <<>>]

\* content, ctype = download_file(url), recorded
Fetched(s, sec, url, resp) ==
    [s EXCEPT !.calls = Append(@, [sec |-> sec, url |-> url, resp |-> resp]),
              !.net = @ \o download_file(url, resp).req]

\* The order with the certificate and letter sections exchanged.
AfterSwapped(sec) ==
    CASE sec = "info"  -> "surat"
      [] sec = "surat" -> "sijil"
      [] sec = "sijil" -> "foto"
      [] sec = "foto"  -> "save"
      [] sec = "save"  -> "done"

\* The sections of generate_pdf in the order the code runs them.
After(sec) ==
    CASE sec = "info"  -> "sijil"
      [] sec = "sijil" -> "surat"
      [] sec = "surat" -> "foto"
      [] sec = "foto"  -> "save"
      [] sec = "save"  -> "done"

\* PAGE 1: INFO UTAMA
InfoStep(s, d) ==
    LET ops == <<DrawString("LAPORAN PENCAPAIAN KOKURIKULUM", 0, <<>>)>>
                  \o FieldOps(Fields(d))
                  \o <<DrawString("Dijana oleh Sistem Laporan Kokurikulum",
                                  0, <<>>)>>
    IN  [showPage([s EXCEPT !.page = @ \o ops]) EXCEPT !.pc = After("info")]

\* SijilStep leaving generate_pdf's remaining sections out when the
\* certificate cannot be downloaded.
SijilStepAbort(s, d, resp) ==
    LET sijil_url == get_val(d, <<"Sijil_Link", "Sijil">>, None)
    IN  IF Truthy(sijil_url) /\ Len(sijil_url) > MinLinkLen
        THEN LET s1 == drawString(s, "SIJIL PENCAPAIAN", 0)
                 got == download_file(sijil_url, resp)
                 s2 == Fetched(s1, "SIJIL", sijil_url, resp)
                 s3 == IF HasContent(got.content)
                       THEN IF HasPdfType(got.ctype)
                            THEN LET r == render_pdf_page(s2.page,
                                                          got.content, 0)
                                     s2r == [s2 EXCEPT !.page = r.page]
                                 IN  IF ~r.ok
                                     THEN drawString(s2r,
                                            "[Ralat Memaparkan PDF Sijil]", 0)
                                     ELSE s2r
                            ELSE IF HasImageType(got.ctype)
                            THEN [s2 EXCEPT !.page =
                                     render_image(s2.page, got.content).page]
                            ELSE drawString(s2,
                                            "[Format fail tidak disokong]", 0)
                       ELSE drawString(s2, "[Gagal memuat turun Sijil]", 0)
             IN  [showPage(s3) EXCEPT
                     !.pc = IF HasContent(got.content) THEN After("sijil")
                            ELSE "save"]
        ELSE [s EXCEPT !.pc = After("sijil")]

\* SijilStep with c.showPage() inside `if content:`.
SijilStepSealInside(s, d, resp) ==
    LET sijil_url == get_val(d, <<"Sijil_Link", "Sijil">>, None)
    IN  IF Truthy(sijil_url) /\ Len(sijil_url) > MinLinkLen
        THEN LET s1 == drawString(s, "SIJIL PENCAPAIAN", 0)
                 got == download_file(sijil_url, resp)
                 s2 == Fetched(s1, "SIJIL", sijil_url, resp)
                 s3 == IF HasContent(got.content)
                       THEN IF HasPdfType(got.ctype)
                            THEN LET r == render_pdf_page(s2.page,
                                                          got.content, 0)
                                     s2r == [s2 EXCEPT !.page = r.page]
                                 IN  IF ~r.ok
                                     THEN drawString(s2r,
                                            "[Ralat Memaparkan PDF Sijil]", 0)
                                     ELSE s2r
                            ELSE IF HasImageType(got.ctype)
                            THEN [s2 EXCEPT !.page =
                                     render_image(s2.page, got.content).page]
                            ELSE drawString(s2,
                                            "[Format fail tidak disokong]", 0)
                       ELSE drawString(s2, "[Gagal memuat turun Sijil]", 0)
             IN  [(IF HasContent(got.content) THEN showPage(s3) ELSE s3)
                     EXCEPT !.pc = After("sijil")]
        ELSE [s EXCEPT !.pc = After("sijil")]

\* PAGE 2: SIJIL
SijilStep(s, d, resp) ==
    LET sijil_url == get_val(d, <<"Sijil_Link", "Sijil">>, None)
    IN  IF Truthy(sijil_url) /\ Len(sijil_url) > MinLinkLen
        THEN LET s1 == drawString(s, "SIJIL PENCAPAIAN", 0)
                 got == download_file(sijil_url, resp)
                 s2 == Fetched(s1, "SIJIL", sijil_url, resp)
                 s3 == IF HasContent(got.content)
                       THEN IF HasPdfType(got.ctype)
                            THEN LET r == render_pdf_page(s2.page,
                                                          got.content, 0)
                                     s2r == [s2 EXCEPT !.page = r.page]
                                 IN  IF ~r.ok
                                     THEN drawString(s2r,
                                            "[Ralat Memaparkan PDF Sijil]", 0)
                                     ELSE s2r
                            ELSE IF HasImageType(got.ctype)
                            THEN [s2 EXCEPT !.page =
                                     render_image(s2.page, got.content).page]
                            ELSE drawString(s2,
                                            "[Format fail tidak disokong]", 0)
                       ELSE drawString(s2, "[Gagal memuat turun Sijil]", 0)
             IN  [showPage(s3) EXCEPT !.pc = After("sijil")]
        ELSE [s EXCEPT !.pc = After("sijil")]

\* PAGE 3+: SURAT, the split of the link into urls
SuratSplitStep(s, d) ==
    LET surat_url == get_val(d, <<"Surat_Link", "Surat Jemputan">>, None)
    IN  IF Truthy(surat_url) /\ Len(surat_url) > MinLinkLen
        THEN LET kept == SelectStrip(Split(surat_url), MinLinkLen)
             IN  [s EXCEPT !.urls = kept, !.idx = 0,
                           !.pc = IF kept = <<>> THEN After("surat")
                                  ELSE "surat_loop"]
        ELSE [s EXCEPT !.pc = After("surat")]

\* SuratStep titling with idx in place of idx + 1.
SuratStepZeroBased(s, resp) ==
    LET s_url == s.urls[s.idx + 1]
        s1 == drawString(s, "SURAT JEMPUTAN",
                         IF Len(s.urls) > 1 THEN s.idx ELSE 0)
        got == download_file(s_url, resp)
        s2 == Fetched(s1, "SURAT", s_url, resp)
        s3 == IF HasContent(got.content)
              THEN IF HasPdfType(got.ctype)
                   THEN [s2 EXCEPT !.page =
                            render_pdf_page(s2.page, got.content, 0).page]
                   ELSE IF HasImageType(got.ctype)
                   THEN [s2 EXCEPT !.page =
                            render_image(s2.page, got.content).page]
                   ELSE drawString(s2, "[Format fail tidak disokong]", 0)
              ELSE drawString(s2, "[Gagal memuat turun Surat]", 0)
    IN  [showPage(s3) EXCEPT
            !.idx = s.idx + 1,
            !.pc = IF s.idx + 1 < Len(s.urls) THEN "surat_loop"
                   ELSE After("surat")]

\* PAGE 3+: SURAT, one iteration of `for idx, s_url in enumerate(urls)`
SuratStep(s, resp) ==
    LET s_url == s.urls[s.idx + 1]
        s1 == drawString(s, "SURAT JEMPUTAN",
                         IF Len(s.urls) > 1 THEN s.idx + 1 ELSE 0)
        got == download_file(s_url, resp)
        s2 == Fetched(s1, "SURAT", s_url, resp)
        s3 == IF HasContent(got.content)
              THEN IF HasPdfType(got.ctype)
                   THEN [s2 EXCEPT !.page =
                            render_pdf_page(s2.page, got.content, 0).page]
                   ELSE IF HasImageType(got.ctype)
                   THEN [s2 EXCEPT !.page =
                            render_image(s2.page, got.content).page]
                   ELSE drawString(s2, "[Format fail tidak disokong]", 0)
              ELSE drawString(s2, "[Gagal memuat turun Surat]", 0)
    IN  [showPage(s3) EXCEPT
            !.idx = s.idx + 1,
            !.pc = IF s.idx + 1 < Len(s.urls) THEN "surat_loop"
                   ELSE After("surat")]

\* target_cols
target_cols == <<"Link_Foto1", "Link_Foto2", "Link_Foto3", "Link_Foto4">>

\* Images per grid page (valid_img_count % 4) and per grid row (// 2, % 2).
PerPage == 4
PerRow == 2

\* CollectFoto testing len(val) in place of len(val.strip()).
RECURSIVE CollectFotoRaw(_, _)
CollectFotoRaw(d, cols) ==
    IF cols = <<>> THEN <<>>
    ELSE LET val == Get(d, Head(cols))
         IN  (IF Truthy(val) /\ Len(val) > MinLinkLen
              THEN <<Strip(val)>> ELSE <<>>)
                 \o CollectFotoRaw(d, Tail(cols))

\* img_urls, collected from target_cols
RECURSIVE CollectFoto(_, _)
CollectFoto(d, cols) ==
    IF cols = <<>> THEN <<>>
    ELSE LET val == Get(d, Head(cols))
         IN  (IF Truthy(val) /\ Len(Strip(val)) > MinLinkLen
              THEN <<Strip(val)>> ELSE <<>>)
                 \o CollectFoto(d, Tail(cols))

\* PAGE N: GAMBAR, the collection of img_urls and the section header
FotoCollectStep(s, d) ==
    LET found == CollectFoto(d, target_cols)
    IN  IF found # <<>>
        THEN [drawString(s, "LAMPIRAN: GAMBAR AKTIVITI", 0) EXCEPT
                 !.img_urls = found, !.valid_img_count = 0, !.i = 0,
                 !.pc = "foto_loop"]
        ELSE [s EXCEPT !.pc = After("foto")]

\* PAGE N: GAMBAR, "Draw Image in Box": the drawImage of an image that
\* decodes, fitted to the cell at (row, col) of the grid.
CellImage(content, row, col) ==
    LET width == Num(A4[1])
        height == Num(A4[2])
        margin == Num(25 * mm)
        grid_w == QDiv(QSub(width, QMul(Num(2), margin)), Num(2))
        grid_h == QDiv(QSub(height, Num(50 * mm)), Num(2))
        x_pos == QAdd(margin, QMul(Num(col), grid_w))
        y_pos == QSub(QSub(height, Num(40 * mm)),
                      QMul(Num(row + 1), grid_h))
        iw == Num(content.size[1])
        ih == Num(content.size[2])
        pad == Num(5 * mm)
        avail_w == QSub(grid_w, QMul(Num(2), pad))
        avail_h == QSub(grid_h, QMul(Num(2), pad))
        scale == QMin(QDiv(avail_w, iw), QDiv(avail_h, ih))
        dw == QMul(iw, scale)
        dh == QMul(ih, scale)
        final_x == QAdd(QAdd(x_pos, pad),
                        QDiv(QSub(avail_w, dw), Num(2)))
        final_y == QAdd(QAdd(y_pos, pad),
                        QDiv(QSub(avail_h, dh), Num(2)))
    IN  DrawImage("cell", PerRow * row + col, final_x, final_y, dw, dh)

\* FotoStep starting a page at every valid_img_count % 4 == 0, the first
\* included.
FotoStepBreakAtZero(s, resp) ==
    LET url == s.img_urls[s.i + 1]
        got == download_file(url, resp)
        s1 == [Fetched(s, "FOTO", url, resp) EXCEPT !.i = s.i + 1]
    IN  IF ~HasContent(got.content) \/ ~HasImageType(got.ctype)
        THEN s1
        ELSE LET s2 == IF s1.valid_img_count % PerPage = 0
                       THEN drawString(showPage(s1),
                                       "LAMPIRAN: GAMBAR (Sambungan)", 0)
                       ELSE s1
                 pos_on_page == s1.valid_img_count % PerPage
                 row == pos_on_page \div PerRow
                 col == pos_on_page % PerRow
                 s3 == IF ImageFits(got.content)
                       THEN [s2 EXCEPT !.page =
                               Append(@, CellImage(got.content, row, col))]
                       ELSE s2
             IN  [s3 EXCEPT !.valid_img_count = @ + 1]

\* FotoStep placing the image by the loop index i in place of
\* valid_img_count.
FotoStepByLoopIndex(s, resp) ==
    LET url == s.img_urls[s.i + 1]
        got == download_file(url, resp)
        s1 == [Fetched(s, "FOTO", url, resp) EXCEPT !.i = s.i + 1]
    IN  IF ~HasContent(got.content) \/ ~HasImageType(got.ctype)
        THEN s1
        ELSE LET s2 == IF s1.valid_img_count > 0
                          /\ s1.valid_img_count % PerPage = 0
                       THEN drawString(showPage(s1),
                                       "LAMPIRAN: GAMBAR (Sambungan)", 0)
                       ELSE s1
                 pos_on_page == s.i % PerPage
                 row == pos_on_page \div PerRow
                 col == pos_on_page % PerRow
                 s3 == IF ImageFits(got.content)
                       THEN [s2 EXCEPT !.page =
                               Append(@, CellImage(got.content, row, col))]
                       ELSE s2
             IN  [s3 EXCEPT !.valid_img_count = @ + 1]

\* FotoStep counting a photo only when its image was drawn.
FotoStepCountDrawn(s, resp) ==
    LET url == s.img_urls[s.i + 1]
        got == download_file(url, resp)
        s1 == [Fetched(s, "FOTO", url, resp) EXCEPT !.i = s.i + 1]
    IN  IF ~HasContent(got.content) \/ ~HasImageType(got.ctype)
        THEN s1
        ELSE LET s2 == IF s1.valid_img_count > 0
                          /\ s1.valid_img_count % PerPage = 0
                       THEN drawString(showPage(s1),
                                       "LAMPIRAN: GAMBAR (Sambungan)", 0)
                       ELSE s1
                 pos_on_page == s1.valid_img_count % PerPage
                 row == pos_on_page \div PerRow
                 col == pos_on_page % PerRow
             IN  IF ImageFits(got.content)
                 THEN [s2 EXCEPT !.page =
                               Append(@, CellImage(got.content, row, col)),
                           !.valid_img_count = @ + 1]
                 ELSE s2

\* PAGE N: GAMBAR, one iteration of `for i, url in enumerate(img_urls)`
FotoStep(s, resp) ==
    LET url == s.img_urls[s.i + 1]
        got == download_file(url, resp)
        s1 == [Fetched(s, "FOTO", url, resp) EXCEPT !.i = s.i + 1]
    IN  IF ~HasContent(got.content) \/ ~HasImageType(got.ctype)
        THEN s1
        ELSE LET s2 == IF s1.valid_img_count > 0
                          /\ s1.valid_img_count % PerPage = 0
                       THEN drawString(showPage(s1),
                                       "LAMPIRAN: GAMBAR (Sambungan)", 0)
                       ELSE s1
                 pos_on_page == s1.valid_img_count % PerPage
                 row == pos_on_page \div PerRow
                 col == pos_on_page % PerRow
                 s3 == IF ImageFits(got.content)
                       THEN [s2 EXCEPT !.page =
                               Append(@, CellImage(got.content, row, col))]
                       ELSE s2
             IN  [s3 EXCEPT !.valid_img_count = @ + 1]

\* PAGE N: GAMBAR, the c.showPage() after the loop
FotoEndStep(s) == [showPage(s) EXCEPT !.pc = After("foto")]

\* c.save(); buffer.seek(0); return buffer.  save() seals the current page
\* only if something was drawn on it since the last showPage().
SaveStep(s) ==
    [(IF s.page # <<>> THEN showPage(s) ELSE s) EXCEPT
        !.pc = After("save"), !.result = "buffer"]

\* ------------------------------------------------------------- actions

Info == pc = "info" /\ SetState(InfoStep(State, data_dict))

Sijil ==
    /\ pc = "sijil"
    /\ \E resp \in Responses : SetState(SijilStep(State, data_dict, resp))

SuratSplit == pc = "surat" /\ SetState(SuratSplitStep(State, data_dict))

Surat ==
    /\ pc = "surat_loop"
    /\ \E resp \in Responses : SetState(SuratStep(State, resp))

FotoCollect == pc = "foto" /\ SetState(FotoCollectStep(State, data_dict))

Foto ==
    /\ pc = "foto_loop"
    /\ i < Len(img_urls)
    /\ \E resp \in FotoResponses : SetState(FotoStep(State, resp))

FotoEnd ==
    /\ pc = "foto_loop"
    /\ i >= Len(img_urls)
    /\ SetState(FotoEndStep(State))

Save == pc = "save" /\ SetState(SaveStep(State))

Next ==
    \/ Info
    \/ Sijil
    \/ SuratSplit
    \/ Surat
    \/ FotoCollect
    \/ Foto
    \/ FotoEnd
    \/ Save

\* --------------------------------------------------------------- records

\* How many of the four photo columns a record fills.
MaxFotoSet == 1

\* The function with no key.
Empty == [k \in {} |-> None]

InfoFields ==
    ("Nama" :> <<"A", "l", "i">>) @@ ("Kelas" :> <<"5", "A">>) @@ ("Tarikh" :> <<"2", "0", "2", "4", "-", "0", "5", "-", "0", "1">>)
        @@ ("Tajuk" :> <<"P", "i", "d", "a", "t", "o">>)

\* Certificate fields: none; a Drive link; a blank Sijil_Link with a
\* five-character Sijil.
SijilFields ==
    { Empty,
      "Sijil_Link" :> <<"/", "f", "i", "l", "e", "/", "d", "/", "A", "1">>,
      ("Sijil_Link" :> <<" ", " ", " ">>) @@ ("Sijil" :> <<"a", "b", "c", "d", "e">>) }

\* Letter fields: none; five characters; six characters with no piece long
\* enough; one link; three pieces of which two are links, split by a comma
\* and a newline; under the second key, a padded link and a short piece.
SuratFields ==
    { Empty,
      "Surat_Link" :> <<"a", "b", ",", "c", "d">>,
      "Surat_Link" :> <<"a", "b", "c", ",", "d", "e">>,
      "Surat_Link" :> <<"s", "u", "r", "a", "t", "1">>,
      "Surat_Link" :>
          <<"s", "u", "r", "a", "t", "1", ",", "a", "b", "\n", "s", "u", "r", "a", "t", "2">>,
      "Surat Jemputan" :>
          <<" ", "s", "u", "r", "a", "t", "3", " ", ",", "a", "b">> }

\* The link of photo column k, and a value too short once stripped.
FotoUrl(k) == <<"f", "o", "t", "o", "0", <<"1", "2", "3", "4">>[k]>>
FotoShort == <<" ", "a", "b", " ", " ", " ">>

FotoFields ==
    LET choice(k) == {FotoShort, FotoUrl(k)}
        filled == {S \in SUBSET (1..Len(target_cols)) :
                      Cardinality(S) <= MaxFotoSet}
        pick(S) == {f \in [S -> {FotoShort} \cup {FotoUrl(k) : k \in S}] :
                      \A k \in S : f[k] \in choice(k)}
    IN  UNION {{[c \in {target_cols[k] : k \in S} |->
                   f[CHOOSE k \in S : target_cols[k] = c]] : f \in pick(S)}
               : S \in filled}

Records ==
    {InfoFields @@ sijil @@ surat @@ foto :
        sijil \in SijilFields, surat \in SuratFields, foto \in FotoFields}

\* The state generate_pdf starts in, called on data_dict.
Started(d) ==
    /\ data_dict = d
    /\ pc = "info"
    /\ page = <<>>
    /\ pages = <<>>
    /\ urls = <<>>
    /\ idx = 0
    /\ img_urls = <<>>
    /\ i = 0
    /\ valid_img_count = 0
    /\ calls = <<>>
    /\ net = <<>>
    /\ result = "none"

\* No helper is called on its own, and no second invocation is running.
NoCall ==
    /\ arg = None
    /\ ret = [content |-> NoContent, ctype |-> "", req |-> <<>>]
Alone == second = [d |-> Empty, s |-> [StartState EXCEPT !.pc = "done"]]

\* links = {'surat': '', 'sijil': '', 'g1': '', 'g2': '', 'g3': '', 'g4': ''},
\* the empty string being the empty sequence.
NoLinks == [surat |-> <<>>, sijil |-> <<>>, g |-> <<<<>>, <<>>, <<>>, <<>>>>]

\* No handler of the app is running: the sheet and the Drive folder are
\* not touched.
IdleApp ==
    [new_folder_id |-> <<>>, links |-> NoLinks, idx |-> 0,
     current_df |-> <<>>, calls |-> <<>>, shown |-> <<>>,
     returned |-> "none"]
NoApp == sheet = <<>> /\ drive = <<>> /\ app = IdleApp

Init == \E d \in Records : Started(d) /\ NoCall /\ Alone /\ NoApp

Spec == Init /\ [][Next]_vars

\* ---------------------------------------------------------- properties

\* The section a sealed page belongs to, read from the header drawn first.
SectionOf(p) ==
    IF p = <<>> THEN "NONE"
    ELSE CASE p[1].text = "LAPORAN PENCAPAIAN KOKURIKULUM" -> "INFO"
           [] p[1].text = "SIJIL PENCAPAIAN" -> "SIJIL"
           [] p[1].text = "SURAT JEMPUTAN" -> "SURAT"
           [] p[1].text \in {"LAMPIRAN: GAMBAR AKTIVITI",
                             "LAMPIRAN: GAMBAR (Sambungan)"} -> "FOTO"
           [] OTHER -> "NONE"

Rank(sec) ==
    CASE sec = "INFO" -> 1
      [] sec = "SIJIL" -> 2
      [] sec = "SURAT" -> 3
      [] sec = "FOTO" -> 4
      [] OTHER -> 0

\* The sealed pages of a section, and the fetches of a section, in order.
PagesOf(ps, sec) == SelectSeq(ps, LAMBDA p : SectionOf(p) = sec)
CallsOf(cs, sec) == SelectSeq(cs, LAMBDA c : c.sec = sec)

Done == pc = "done"

\* C1: pages are sealed in the order INFO, SIJIL, SURAT (in the order of the
\* links), FOTO: no page of an earlier section follows a page of a later
\* one, and the first page sealed is the one INFO page.
C1_SectionOrder ==
    /\ \A a \in 1..Len(pages) : Rank(SectionOf(pages[a])) >= 1
    /\ \A a, b \in 1..Len(pages) :
          a < b => Rank(SectionOf(pages[a])) <= Rank(SectionOf(pages[b]))
    /\ pc # "info" =>
          /\ pages # <<>>
          /\ SectionOf(pages[1]) = "INFO"
          /\ Len(PagesOf(pages, "INFO")) = 1
    /\ LET sp == PagesOf(pages, "SURAT")
           sc == CallsOf(calls, "SURAT")
       IN  /\ Len(sp) <= Len(urls)
           /\ \A k \in 1..Len(sp) :
                 /\ k <= Len(sc) /\ sc[k].url = urls[k]
                 /\ Len(urls) > 1 => sp[k][1].ord = k

C1_AllSections ==
    /\ Done
    /\ Len(PagesOf(pages, "INFO")) = 1
    /\ Len(PagesOf(pages, "SIJIL")) = 1
    /\ Len(PagesOf(pages, "SURAT")) = 2
    /\ Len(PagesOf(pages, "FOTO")) = 1

\* The photo links whose fetch succeeded with an image content-type.
Accepted ==
    Len(SelectSeq(CallsOf(calls, "FOTO"),
                  LAMBDA c : c.resp.status = 200 /\ HasImageType(c.resp.ctype)))

\* ceil(n / 4)
CeilPerPage(n) == (n + PerPage - 1) \div PerPage

\* C2: the output holds ceil(accepted / 4) photo pages: none when no photo
\* link is accepted.
C2_FotoPageCount ==
    Done => Len(PagesOf(pages, "FOTO")) = CeilPerPage(Accepted)

\* generate_pdf run from state s to its end, the fetches answered by the
\* responses rs in order (and by a PDF once rs is used up).
RECURSIVE Run(_, _, _)
Run(s, d, rs) ==
    LET resp == IF rs = <<>> THEN PdfDrawn ELSE Head(rs)
        rest(n) == IF Len(n.calls) > Len(s.calls) /\ rs # <<>>
                   THEN Tail(rs) ELSE rs
    IN  CASE s.pc = "info" -> Run(InfoStep(s, d), d, rs)
          [] s.pc = "sijil" ->
                LET n == SijilStep(s, d, resp) IN Run(n, d, rest(n))
          [] s.pc = "surat" -> Run(SuratSplitStep(s, d), d, rs)
          [] s.pc = "surat_loop" ->
                LET n == SuratStep(s, resp) IN Run(n, d, rest(n))
          [] s.pc = "foto" -> Run(FotoCollectStep(s, d), d, rs)
          [] s.pc = "foto_loop" ->
                IF s.i < Len(s.img_urls)
                THEN LET n == FotoStep(s, resp) IN Run(n, d, rest(n))
                ELSE Run(FotoEndStep(s), d, rs)
          [] s.pc = "save" -> Run(SaveStep(s), d, rs)
          [] OTHER -> s

\* The response of a fetch that does not fail, per section.
Good(sec) == IF sec = "FOTO" THEN ImageDrawn ELSE PdfDrawn

\* The responses of this run, those of section sec replaced by good ones.
Healed(sec) ==
    [k \in 1..Len(calls) |->
        IF calls[k].sec = sec THEN Good(sec) ELSE calls[k].resp]

\* generate_pdf has a next step to take: it has not stopped short of its
\* return.
CanStep ==
    \/ pc \in {"info", "sijil", "surat", "foto", "save"}
    \/ pc = "surat_loop" /\ idx < Len(urls)
    \/ pc = "foto_loop" /\ i <= Len(img_urls)

\* C3: whatever fails in the certificate, letter or photo section,
\* generate_pdf goes on to return its buffer, and the pages of every other
\* section are those of the run in which that section's fetches all succeed.
C3_FailureContained ==
    /\ ~Done => CanStep
    /\ Done =>
          /\ result = "buffer"
          /\ \A sec \in {calls[k].sec : k \in 1..Len(calls)} :
                LET ideal == Run(StartState, data_dict, Healed(sec))
                IN  \A other \in {"INFO", "SIJIL", "SURAT", "FOTO"} \ {sec} :
                       PagesOf(pages, other) = PagesOf(ideal.pages, other)

C3_FailuresEverywhere ==
    /\ Done
    /\ \E c \in 1..Len(calls) :
          calls[c].sec = "SIJIL" /\ calls[c].resp = PdfBroken
    /\ \E c \in 1..Len(calls) :
          calls[c].sec = "SURAT" /\ calls[c].resp = Unreachable
    /\ \E c \in 1..Len(calls) :
          calls[c].sec = "SURAT" /\ calls[c].resp = ImageBroken
    /\ \E c \in 1..Len(calls) :
          calls[c].sec = "FOTO" /\ calls[c].resp = ImageBroken
    /\ Len(PagesOf(pages, "SURAT")) = 2

\* The certificate link generate_pdf resolves, and whether it passes the
\* length check that triggers the section.
SijilLink == get_val(data_dict, <<"Sijil_Link", "Sijil">>, None)
SijilTriggered == Truthy(SijilLink) /\ Len(SijilLink) > MinLinkLen

\* C4: a triggered certificate section seals exactly one page, whatever the
\* fetch gives: right after it the document is the info page and that page,
\* and no later section adds a certificate page.
C4_OneSijilPage ==
    SijilTriggered =>
        /\ pc = After("sijil") =>
              /\ Len(pages) = 2
              /\ SectionOf(pages[2]) = "SIJIL"
              /\ page = <<>>
        /\ pc \notin {"info", "sijil"} => Len(PagesOf(pages, "SIJIL")) = 1

C4_SealedWithoutContent ==
    /\ pc = After("sijil")
    /\ SijilTriggered
    /\ calls[1].resp = ImageBroken
    /\ Len(pages) = 2

\* The texts drawn in place of content that cannot be shown.
Placeholders ==
    {"[Ralat Memaparkan PDF Sijil]", "[Format fail tidak disokong]",
     "[Gagal memuat turun Sijil]", "[Gagal memuat turun Surat]"}

HasPlaceholder(p) == \E k \in 1..Len(p) : p[k].text \in Placeholders
HasDrawn(p) == \E k \in 1..Len(p) : p[k].op \in {"doForm", "drawImage"}

\* C5: a certificate page is never sealed with neither content nor
\* placeholder.
C5_SijilPlaceholder ==
    \A k \in 1..Len(pages) :
        SectionOf(pages[k]) = "SIJIL" =>
            HasDrawn(pages[k]) \/ HasPlaceholder(pages[k])

\* The page the certificate section seals when its fetch is given resp.
SijilPageFor(resp) ==
    LET d == "Sijil_Link" :> <<"s", "i", "j", "i", "l", "1">>
    IN  SijilStep([StartState EXCEPT !.pc = "sijil"], d, resp).pages[1]

\* C6: a letter link is processed as the certificate link is: its page has
\* a placeholder (and content) exactly when the certificate page has one
\* for the same fetch outcome.
C6_SuratLikeSijil ==
    LET sp == PagesOf(pages, "SURAT")
        sc == CallsOf(calls, "SURAT")
    IN  /\ Len(sp) = Len(sc)
        /\ \A k \in 1..Len(sp) :
              /\ HasPlaceholder(sp[k]) = HasPlaceholder(SijilPageFor(sc[k].resp))
              /\ HasDrawn(sp[k]) = HasDrawn(SijilPageFor(sc[k].resp))

SuratKeys == {"Surat_Link", "Surat Jemputan"}
FotoKeys == {target_cols[k] : k \in 1..Len(target_cols)}

\* The certificate link is fetched from an unreachable host and the record
\* has no letter or photo field.
OnlySijilUnreachable ==
    /\ DOMAIN data_dict \cap (SuratKeys \cup FotoKeys) = {}
    /\ SijilTriggered
    /\ calls # <<>>
    /\ calls[1].sec = "SIJIL"
    /\ calls[1].resp = Unreachable

\* C7: with the certificate host unreachable and no letter or photo field,
\* the output is 2 pages, the second with the download-failure placeholder,
\* and generate_pdf returns its buffer.
C7_UnreachableSijil ==
    (Done /\ OnlySijilUnreachable) =>
        /\ Len(pages) = 2
        /\ SectionOf(pages[2]) = "SIJIL"
        /\ \E k \in 1..Len(pages[2]) :
              pages[2][k].text = "[Gagal memuat turun Sijil]"
        /\ ~HasDrawn(pages[2])
        /\ result = "buffer"

C7_UnreachableReturned == Done /\ OnlySijilUnreachable

\* The length of a string without its leading and trailing white space.
TrimmedLen(str) ==
    LET ns == {j \in 1..Len(str) : ~IsSpace(str[j])}
    IN  IF ns = {} THEN 0 ELSE Max(ns) - Min(ns) + 1

\* No certificate, letter or photo field holds a usable value: each is
\* absent, None or no longer than 5 characters once trimmed.
NoUsableAttachment ==
    \A k \in {"Sijil_Link", "Sijil"} \cup SuratKeys \cup FotoKeys :
        \/ k \notin DOMAIN data_dict
        \/ data_dict[k] = None
        \/ TrimmedLen(data_dict[k]) <= MinLinkLen

\* C8: with no usable certificate, letter or photo field the output is the
\* INFO page alone and nothing is fetched.
C8_InfoOnly ==
    NoUsableAttachment =>
        /\ calls = <<>>
        /\ net = <<>>
        /\ Done => Len(pages) = 1 /\ SectionOf(pages[1]) = "INFO"

C8_ShortFieldsIgnored ==
    /\ Done
    /\ NoUsableAttachment
    /\ "Sijil" \in DOMAIN data_dict
    /\ DOMAIN data_dict \cap FotoKeys # {}

\* The letter link generate_pdf resolves.
SuratLink == get_val(data_dict, <<"Surat_Link", "Surat Jemputan">>, None)

\* C9: the number of letter pages is the number of pieces the letter link
\* splits into at commas and newlines.
C9_PagePerPiece ==
    Done =>
        Len(PagesOf(pages, "SURAT"))
            = IF Truthy(SuratLink) THEN Len(Split(SuratLink)) ELSE 0

\* The pieces of str between commas and newlines that are longer than 5
\* characters once trimmed: where each starts, and each one trimmed.
PieceStarts(str) ==
    {1} \cup {k + 1 : k \in {j \in 1..Len(str) : str[j] \in {",", "\n"}}}
PieceEnd(str, a) ==
    Min({k \in a..Len(str) : str[k] \in {",", "\n"}} \cup {Len(str) + 1}) - 1
PieceText(str, a) ==
    LET ns == {j \in a..PieceEnd(str, a) : ~IsSpace(str[j])}
    IN  IF ns = {} THEN <<>> ELSE [j \in 1..(Max(ns) - Min(ns) + 1) |->
                                      str[Min(ns) + j - 1]]
LongPieces(str) ==
    LET starts == {a \in PieceStarts(str) :
                      Len(PieceText(str, a)) > MinLinkLen}
    IN  [k \in 1..Cardinality(starts) |->
            PieceText(str, CHOOSE a \in starts :
                              Cardinality({b \in starts : b <= a}) = k)]

\* The long pieces of the letter link this record resolves to.
SuratLongPieces ==
    LET link == SuratLink
    IN  IF Truthy(link) THEN LongPieces(link) ELSE <<>>

\* C9, amended: the number of letter pages is the number of pieces, between
\* commas and newlines, that are longer than 5 characters once trimmed; each
\* such piece is fetched for a page of its own, in order.
C9_PagePerLongPiece ==
    LET sp == PagesOf(pages, "SURAT")
        sc == CallsOf(calls, "SURAT")
        lp == SuratLongPieces
    IN  /\ Len(sp) = Len(sc)
        /\ sc # <<>> =>
              /\ Len(sc) <= Len(lp)
              /\ \A k \in 1..Len(sc) : sc[k].url = lp[k]
        /\ Done => Len(sp) = Len(lp)

C9_ShortPieceDropped ==
    /\ Done
    /\ Truthy(SuratLink)
    /\ Len(Split(SuratLink)) = 3
    /\ Len(PagesOf(pages, "SURAT")) = 2

\* C10: with more than one piece in the letter link the i-th letter page is
\* titled with the ordinal i, with exactly one piece the title has none.
C10_OrdinalPerPiece ==
    (Done /\ Truthy(SuratLink)) =>
        LET sp == PagesOf(pages, "SURAT")
            n == Len(Split(SuratLink))
        IN  /\ n > 1 => \A k \in 1..Len(sp) : sp[k][1].ord = k
            /\ n = 1 => \A k \in 1..Len(sp) : sp[k][1].ord = 0

\* C10, amended: with more than one piece longer than 5 characters once
\* trimmed there is a letter page for each, the i-th titled with the
\* ordinal i; with exactly one there is one letter page, titled without.
C10_OrdinalPerLongPiece ==
    Done =>
        LET sp == PagesOf(pages, "SURAT")
            n == Len(SuratLongPieces)
        IN  /\ n > 1 =>
                  /\ Len(sp) = n
                  /\ \A k \in 1..n :
                        sp[k][1] = DrawString("SURAT JEMPUTAN", k, <<>>)
            /\ n = 1 =>
                  /\ Len(sp) = 1
                  /\ sp[1][1] = DrawString("SURAT JEMPUTAN", 0, <<>>)

C10_TwoOrdinals ==
    /\ Done
    /\ Len(SuratLongPieces) = 2
    /\ PagesOf(pages, "SURAT")[2][1].ord = 2

\* C17: no download_file call asks the network more than once, a failed
\* request is not repeated, and generate_pdf calls download_file exactly
\* once for each reference that triggers: the certificate link, each
\* letter link of urls, each photo link of img_urls, in that order.
C17_SingleAttempt ==
    /\ Len(net) <= Len(calls)
    /\ Done =>
          [k \in 1..Len(calls) |-> calls[k].url]
              = (IF SijilTriggered THEN <<SijilLink>> ELSE <<>>)
                    \o urls \o img_urls

C17_FailedNotRetried ==
    /\ Done
    /\ Len(calls) = 4
    /\ \A k \in 1..4 : calls[k].resp = Unreachable
    /\ Len(net) = 4

\* ------------------------------------------------------- the photo grid

\* A sixth-character link under a fifth column, which target_cols does not
\* name.
FotoUrl5 == <<"f", "o", "t", "o", "0", "5">>

\* Records for the photo section: each of the four columns empty, too short
\* once stripped or a link, with or without the fifth column; no
\* certificate and no letter.
FotoRecords ==
    LET cols == 1..Len(target_cols)
        cells(k) == {<<>>, FotoShort, FotoUrl(k)}
        rows == {r \in [cols -> {<<>>, FotoShort} \cup {FotoUrl(k) : k \in cols}] :
                    \A k \in cols : r[k] \in cells(k)}
        rec(r) == [c \in {target_cols[k] : k \in cols} |->
                      r[CHOOSE k \in cols : target_cols[k] = c]]
    IN  {InfoFields @@ rec(r) @@ fifth :
            r \in rows, fifth \in {Empty, "Link_Foto5" :> FotoUrl5}}

InitFoto == \E d \in FotoRecords : Started(d) /\ NoCall /\ Alone /\ NoApp

\* generate_pdf on a record with no letter: the letter loop has no step.
NextFoto ==
    \/ Info
    \/ Sijil
    \/ SuratSplit
    \/ FotoCollect
    \/ Foto
    \/ FotoEnd
    \/ Save

SpecFoto == InitFoto /\ [][NextFoto]_vars

\* The photo pages so far, the one being drawn included.
FotoPages ==
    PagesOf(IF page = <<>> THEN pages ELSE Append(pages, page), "FOTO")

\* The grid slots of the images drawn on photo pages ps, in drawing order,
\* counted on from slot `first` at PerPage slots a page.
RECURSIVE SlotsOn(_, _)
SlotsOn(ps, first) ==
    IF ps = <<>> THEN <<>>
    ELSE LET cells == SelectSeq(Head(ps), LAMBDA o : o.op = "drawImage")
         IN  [k \in 1..Len(cells) |-> first + cells[k].ord]
                 \o SlotsOn(Tail(ps), first + PerPage)

\* The photo fetches that gave content with an image content-type.
AcceptedCalls ==
    SelectSeq(CallsOf(calls, "FOTO"),
              LAMBDA c : /\ c.resp.status = 200
                         /\ c.resp.content.kind \notin {"none", "empty"}
                         /\ c.resp.ctype \in {"image/png", "image/jpeg"})

\* The 0-based ranks, among the accepted fetches acc counted from k, of
\* those whose bytes decode as an image.
RECURSIVE DecodedRanks(_, _)
DecodedRanks(acc, k) ==
    IF acc = <<>> THEN <<>>
    ELSE (IF Head(acc).resp.content.kind = "image" THEN <<k>> ELSE <<>>)
             \o DecodedRanks(Tail(acc), k + 1)

\* C11: a photo link whose fetch gives nothing, or something that is not an
\* image by its content-type, leaves no mark on the photo pages: these hold
\* their header and grid images only, and the k-th accepted image (k from
\* 0, over accepted images only) is drawn in slot k whatever was excluded
\* before it.
C11_ExcludedTakeNoSlot ==
    LET fp == FotoPages
    IN  /\ SlotsOn(fp, 0) = DecodedRanks(AcceptedCalls, 0)
        /\ \A j \in 1..Len(fp) : \A k \in 2..Len(fp[j]) :
              fp[j][k].op = "drawImage" /\ fp[j][k].text = "cell"

C11_SlotsAfterExcluded ==
    /\ Done
    /\ Len(calls) = 4
    /\ calls[1].resp = Unreachable
    /\ calls[2].resp = ImageDrawn
    /\ calls[3].resp = PdfDrawn
    /\ calls[4].resp = ImageDrawn
    /\ SlotsOn(PagesOf(pages, "FOTO"), 0) = <<0, 1>>

\* The record supplies five photo links: Link_Foto1..4 and Link_Foto5.
FiveLinks ==
    /\ \A k \in 1..Len(target_cols) :
          Get(data_dict, target_cols[k]) = FotoUrl(k)
    /\ Get(data_dict, "Link_Foto5") = FotoUrl5

\* The images drawn on page p.
Images(p) == SelectSeq(p, LAMBDA o : o.op = "drawImage")

\* C13: with five photo links supplied, each fetched giving an image, the
\* photo section is two pages: four images, then one.
C13_FiveLinksTwoPages ==
    (Done /\ FiveLinks /\ \A k \in 1..Len(calls) : calls[k].resp = ImageDrawn) =>
        LET fp == PagesOf(pages, "FOTO")
        IN  /\ Len(fp) = 2
            /\ Len(Images(fp[1])) = 4
            /\ Len(Images(fp[2])) = 1

\* ------------------------------------------- the photo loop on any list

\* The longest list of links the photo loop is run on.
MaxGridUrls == 10

\* The k-th link of such a list.
GridUrl(k) ==
    LET digit == <<"0", "1", "2", "3", "4", "5", "6", "7", "8", "9">>
    IN  <<"f", "o", "t", "o", digit[(k \div 10) + 1], digit[(k % 10) + 1]>>

\* generate_pdf at line 300, entering `for i, url in enumerate(img_urls)`
\* with the list `links`: the info page sealed, the section header drawn.
\* generate_pdf itself collects at most Len(target_cols) links; the loop
\* is run here as a function of its list, on longer ones as well.
GridStart(links) ==
    LET s == InfoStep(StartState, InfoFields)
    IN  [drawString(s, "LAMPIRAN: GAMBAR AKTIVITI", 0) EXCEPT
            !.img_urls = links, !.valid_img_count = 0, !.i = 0,
            !.pc = "foto_loop"]

\* generate_pdf called on d has come to state s.
At(d, s) ==
    /\ data_dict = d
    /\ pc = s.pc
    /\ page = s.page
    /\ pages = s.pages
    /\ urls = s.urls
    /\ idx = s.idx
    /\ img_urls = s.img_urls
    /\ i = s.i
    /\ valid_img_count = s.valid_img_count
    /\ calls = s.calls
    /\ net = s.net
    /\ result = s.result

InitGrid ==
    \E n \in 0..MaxGridUrls :
        At(InfoFields, GridStart([k \in 1..n |-> GridUrl(k)])) /\ NoCall /\ Alone /\ NoApp

\* The photo fetches of this loop fail or give an image that decodes.
GridResponses == {Unreachable, ImageDrawn}

FotoGrid ==
    /\ pc = "foto_loop"
    /\ i < Len(img_urls)
    /\ \E resp \in GridResponses : SetState(FotoStep(State, resp))

NextGrid ==
    \/ FotoGrid
    \/ FotoEnd
    \/ Save

SpecGrid == InitGrid /\ [][NextGrid]_vars

\* The 0-based photo page of each image drawn on photo pages ps, in drawing
\* order, pages counted on from j.
RECURSIVE PageIndexes(_, _)
PageIndexes(ps, j) ==
    IF ps = <<>> THEN <<>>
    ELSE LET cells == SelectSeq(Head(ps), LAMBDA o : o.op = "drawImage")
         IN  [k \in 1..Len(cells) |-> j] \o PageIndexes(Tail(ps), j + 1)

CellValues(n) ==
    LET letter == <<"p", "q", "r">>[n]
    IN  {None, <<>>, <<" ", "\t">>, <<" ", letter, " ">>, <<letter, letter>>}

\* The records over the keys `keys`, each key absent or holding a cell value.
CellRecords(keys) ==
    LET cols == 1..Len(keys)
        absent == <<"<absent>">>
        rows == {r \in [cols -> {absent} \cup UNION {CellValues(n) : n \in cols}] :
                    \A n \in cols : r[n] \in {absent} \cup CellValues(n)}
        rec(r) == [k \in {keys[n] : n \in {m \in cols : r[m] # absent}} |->
                      r[CHOOSE n \in cols : keys[n] = k]]
    IN  {rec(r) : r \in rows}

\* What the date cells hold: a date, a string, white space, nothing.
DateRecords ==
    LET first == {Empty} \cup
                 {"Tarikh" :> v :
                     v \in {None, <<>>, <<" ", " ">>, <<"1", " ", "M", "e", "i">>,
                            DateValue(<<"2", "0", "2", "4", "0", "5", "0", "1">>)}}
        middle == {Empty, "str(Tarikh)" :> <<"3", " ", "J", "u", "l">>}
        last == {Empty} \cup
                {"Tarikh Program" :> v :
                    v \in {<<" ">>, <<" ", "2", " ", "J", "u", "n">>,
                           DateValue(<<"2", "0", "2", "4", "0", "6", "0", "2">>)}}
    IN  {a @@ b @@ c : a \in first, b \in middle, c \in last}

\* Records for the info page: the title under its three keys, the name
\* under its two, the date cells; no attachment.
FieldRecords ==
    {("Kelas" :> <<"5", "A">>) @@ f :
        f \in CellRecords(<<"Tajuk Pertandingan", "Tajuk Activity", "Tajuk">>)
               \cup CellRecords(<<"Nama Pelajar", "Nama">>)
               \cup DateRecords}

InitFields == \E d \in FieldRecords : Started(d) /\ NoCall /\ Alone /\ NoApp

\* generate_pdf on a record with no attachment: no loop has a step.
NextFields ==
    \/ Info
    \/ Sijil
    \/ SuratSplit
    \/ FotoCollect
    \/ Save

SpecFields == InitFields /\ [][NextFields]_vars

\* The value drawn on page p next to the label `label`.
DrawnValue(p, label) ==
    p[(CHOOSE k \in 1..Len(p) : p[k].text = label) + 1].val

\* The key holds something other than white space.
NonBlank(d, k) ==
    /\ k \in DOMAIN d
    /\ d[k] # None
    /\ IsDate(d[k]) \/ \E j \in 1..Len(d[k]) : ~IsSpace(d[k][j])

\* The first of keys that is non-blank in d, 0 if none is.
FirstNonBlank(d, keys) ==
    LET hits == {n \in 1..Len(keys) : NonBlank(d, keys[n])}
    IN  IF hits = {} THEN 0 ELSE Min(hits)

\* The labels of the info page resolved by get_val, with their keys in
\* priority order.
Aliases ==
    << <<"Nama Pelajar", <<"Nama Pelajar", "Nama">> >>,
       <<"Kelas", <<"Kelas">> >>,
       <<"Tajuk Aktiviti", <<"Tajuk Pertandingan", "Tajuk Activity", "Tajuk">> >>,
       <<"Penganjur", <<"Penganjur">> >>,
       <<"Tempat", <<"Tempat">> >>,
       <<"Peringkat", <<"Peringkat">> >>,
       <<"Pencapaian", <<"Pencapaian">> >> >>

\* C14: each field drawn on the info page is the trimmed value of the first
\* of its keys, in priority order, that the record holds with something
\* other than white space, and "-" when there is no such key: a blank key
\* of higher priority does not hide a non-blank one of lower priority.
C14_FirstNonBlankWins ==
    pc # "info" =>
        \A a \in 1..Len(Aliases) :
            LET keys == Aliases[a][2]
                n == FirstNonBlank(data_dict, keys)
            IN  DrawnValue(pages[1], Aliases[a][1])
                    = IF n = 0 THEN <<"-">> ELSE Strip(data_dict[keys[n]])

C14_BlankDoesNotShadow ==
    /\ Done
    /\ Get(data_dict, "Tajuk Pertandingan") = <<" ", "\t">>
    /\ "Tajuk Activity" \in DOMAIN data_dict
    /\ data_dict["Tajuk Activity"] = None
    /\ Get(data_dict, "Tajuk") = <<" ", "r", " ">>
    /\ DrawnValue(pages[1], "Tajuk Aktiviti") = <<"r">>

\* C15: the date drawn is that of the first of "Tarikh", "Tarikh Program"
\* holding something other than white space: in ISO form when it is a date,
\* as it stands when it is a string; "-" when neither holds any.
C15_DateFirstNonBlank ==
    pc # "info" =>
        LET keys == <<"Tarikh", "Tarikh Program">>
            n == FirstNonBlank(data_dict, keys)
            v == data_dict[keys[n]]
        IN  DrawnValue(pages[1], "Tarikh Program")
                = IF n = 0 THEN <<"-">>
                  ELSE IF IsDate(v) THEN strftime(v)
                  ELSE v

\* --------------------------------------------- the helpers on their own

\* A 200 with no bytes, a 200 with no Content-Type header, and answers
\* with another status, with and without a body.
EmptyBody == Body("empty", <<>>, <<0, 0>>)
EmptyOk == Response(200, EmptyBody, "application/pdf")
NoTypeOk == Response(200, PdfBody, "")
NotFound == Response(404, HtmlBody, "text/html")
Forbidden == Response(403, PdfBody, "application/pdf")
ServerError == Response(500, EmptyBody, "")

\* What requests.get can do when download_file is called on its own.
FetchResponses ==
    Responses \cup {EmptyOk, NoTypeOk, NotFound, Forbidden, ServerError}

\* The references download_file and extract_drive_id are called on: None,
\* the empty string, four and five characters, a plain link, the two Drive
\* shapes, each alone and together, and near misses of each.
FetchInputs ==
    { None,
      <<>>,
      <<"a", "b", "c", "d">>,
      <<"a", "b", "c", "d", "e">>,
      <<"f", "o", "t", "o", "0", "1">>,
      <<"/", "f", "i", "l", "e", "/", "d", "/", "A", "-", "1", "/", "v">>,
      <<"x", "?", "i", "d", "=", "B", "_", "2">>,
      <<"x", "?", "a", "&", "i", "d", "=", "C", "3", "&", "y">>,
      <<"/", "f", "i", "l", "e", "/", "d", "/", "/", "?", "i", "d", "=", "D", "4">>,
      <<"/", "f", "i", "l", "e", "/", "d", "/", "E", "5", "?", "i", "d", "=", "F", "6">>,
      <<"x", "?", "i", "d", "=", "G", "7", "/", "f", "i", "l", "e", "/", "d", "/", "H", "8">>,
      <<"u", "i", "d", "=", "J", "9">>,
      <<"/", "f", "i", "l", "e", "/", "d", "/">>,
      <<"?", "i", "d", "=", "K">> }

InitFetch ==
    \E a \in FetchInputs, f \in {"download_file", "extract_drive_id"} :
        /\ At(Empty, [StartState EXCEPT !.pc = f])
        /\ arg = a
        /\ ret = [content |-> NoContent, ctype |-> "", req |-> <<>>]
        /\ Alone
        /\ NoApp

\* download_file(arg) called and returned.
Download ==
    /\ pc = "download_file"
    /\ \E resp \in FetchResponses :
          /\ ret' = download_file(arg, resp)
          /\ calls' = Append(calls, [sec |-> "CALL", url |-> arg, resp |-> resp])
          /\ net' = net \o download_file(arg, resp).req
    /\ pc' = "returned"
    /\ UNCHANGED <<data_dict, page, pages, urls, idx, img_urls, i,
                   valid_img_count, result, arg, second,
                   sheet, drive, app>>

\* extract_drive_id(arg) called and returned.
ExtractId ==
    /\ pc = "extract_drive_id"
    /\ ret' = [id |-> extract_drive_id(arg)]
    /\ pc' = "returned_id"
    /\ UNCHANGED <<data_dict, page, pages, urls, idx, img_urls, i,
                   valid_img_count, calls, net, result, arg, second,
                   sheet, drive, app>>

NextFetch ==
    \/ Download
    \/ ExtractId

SpecFetch == InitFetch /\ [][NextFetch]_vars

\* C16: what download_file returns, for every reference and every answer
\* of the network, an exception raised by requests.get (status 0) included,
\* is the bytes and the declared content-type when the reference was asked
\* for and the status is 200, and the pair (None, None) in every other case.
C16_SentinelUnless200 ==
    pc = "returned" =>
        LET resp == calls[1].resp
        IN  IF net # <<>> /\ resp.status = 200
            THEN ret.content = resp.content /\ ret.ctype = resp.ctype
            ELSE ret.content = NoContent /\ ret.ctype = ""

C16_NotFoundGivesSentinel ==
    /\ pc = "returned"
    /\ calls[1].resp = NotFound
    /\ net # <<>>
    /\ ret.content = NoContent

\* Where in u an identifier starts after "/file/d/", and after "?id=" or
\* "&id=".
PathIdStarts(u) ==
    {k + 8 : k \in {j \in 1..(Len(u) - 8) :
                       /\ SubSeq(u, j, j + 7) = <<"/", "f", "i", "l", "e", "/", "d", "/">>
                       /\ u[j + 8] \in IdChars}}
QueryIdStarts(u) ==
    {k + 4 : k \in {j \in 1..(Len(u) - 4) :
                       /\ u[j] \in {"?", "&"}
                       /\ SubSeq(u, j + 1, j + 3) = <<"i", "d", "=">>
                       /\ u[j + 4] \in IdChars}}

\* u has one of the two recognized shapes.
Recognized(u) == PathIdStarts(u) \cup QueryIdStarts(u) # {}

\* The identifier of a recognized u: the identifier characters from the
\* first path-shape start, or else from the first query-shape start.
IdOf(u) ==
    LET a == IF PathIdStarts(u) # {} THEN Min(PathIdStarts(u))
             ELSE Min(QueryIdStarts(u))
        b == Max({j \in a..Len(u) : \A m \in a..j : u[m] \in IdChars})
    IN  SubSeq(u, a, b)

PairRecords ==
    { InfoFields
          @@ ("Sijil_Link" :> <<"/", "f", "i", "l", "e", "/", "d", "/", "A", "1">>)
          @@ ("Link_Foto1" :> FotoUrl(1)),
      ("Nama" :> <<"S", "i", "t", "i">>)
          @@ ("Surat_Link" :> <<"s", "u", "r", "a", "t", "1">>) }

\* Two calls of generate_pdf on different records, neither begun.
InitPair ==
    \E d1 \in PairRecords, d2 \in PairRecords :
        /\ d1 # d2
        /\ Started(d1)
        /\ NoCall
        /\ second = [d |-> d2, s |-> StartState]
        /\ NoApp

\* The second call's buffer and canvas shared with the first call: what it
\* draws lands on the page the first call is drawing.
SetSecondOnSharedCanvas(s) ==
    /\ second' = [second EXCEPT !.s = s]
    /\ page' = s.page
    /\ UNCHANGED <<data_dict, pc, pages, urls, idx, img_urls, i,
                   valid_img_count, calls, net, result, arg, ret,
                   sheet, drive, app>>

\* A step of the second call: buffer, c and every other name it assigns are
\* locals of that call (lines 148-151), so the first call's are left alone.
SetSecond(s) ==
    /\ second' = [second EXCEPT !.s = s]
    /\ UNCHANGED <<data_dict, pc, page, pages, urls, idx, img_urls, i,
                   valid_img_count, calls, net, result, arg, ret,
                   sheet, drive, app>>

Info2 == second.s.pc = "info" /\ SetSecond(InfoStep(second.s, second.d))

Sijil2 ==
    /\ second.s.pc = "sijil"
    /\ \E resp \in Responses : SetSecond(SijilStep(second.s, second.d, resp))

SuratSplit2 ==
    second.s.pc = "surat" /\ SetSecond(SuratSplitStep(second.s, second.d))

Surat2 ==
    /\ second.s.pc = "surat_loop"
    /\ \E resp \in Responses : SetSecond(SuratStep(second.s, resp))

FotoCollect2 ==
    second.s.pc = "foto" /\ SetSecond(FotoCollectStep(second.s, second.d))

Foto2 ==
    /\ second.s.pc = "foto_loop"
    /\ second.s.i < Len(second.s.img_urls)
    /\ \E resp \in FotoResponses : SetSecond(FotoStep(second.s, resp))

FotoEnd2 ==
    /\ second.s.pc = "foto_loop"
    /\ second.s.i >= Len(second.s.img_urls)
    /\ SetSecond(FotoEndStep(second.s))

Save2 == second.s.pc = "save" /\ SetSecond(SaveStep(second.s))

\* Either call takes its next step: the threads interleave at will.
NextPair ==
    \/ Info
    \/ Sijil
    \/ SuratSplit
    \/ Surat
    \/ FotoCollect
    \/ Foto
    \/ FotoEnd
    \/ Save
    \/ Info2
    \/ Sijil2
    \/ SuratSplit2
    \/ Surat2
    \/ FotoCollect2
    \/ Foto2
    \/ FotoEnd2
    \/ Save2

SpecPair == InitPair /\ [][NextPair]_vars

\* The responses the fetches cs were given, in order.
ResponsesOf(cs) == [k \in 1..Len(cs) |-> cs[k].resp]

\* C19: however the steps of two calls of generate_pdf on different
\* records interleave, the pages each call returns are the pages it
\* produces when it runs alone with the same fetch outcomes.
C19_AsIfAlone ==
    /\ Done =>
          pages = Run(StartState, data_dict, ResponsesOf(calls)).pages
    /\ second.s.pc = "done" =>
          second.s.pages
              = Run(StartState, second.d, ResponsesOf(second.s.calls)).pages

C19_BothReturned ==
    /\ Done
    /\ second.s.pc = "done"
    /\ "Sijil_Link" \in DOMAIN data_dict
    /\ calls[1].resp = PdfBroken
    /\ second.s.calls[1].resp = ImageDrawn
    /\ Len(pages) = 3
    /\ Len(second.s.pages) = 2

\* ------------------------------------------------ embedded PDF pages

\* PDFs render_pdf_page gives up on: one with no page, one whose page has
\* a MediaBox of width 0, and one whose page parses but cannot be embedded
\* (makerl or doForm raises).
PdfNoPage == Response(200, Body("pdf", <<>>, <<0, 0>>), "application/pdf")
PdfZeroWidth ==
    Response(200, Body("pdf", << <<0, 0, 0, 842>> >>, <<0, 0>>), "application/pdf")
PdfUnembeddable ==
    Response(200, Body("pdf-unembeddable", << <<0, 0, 595, 842>> >>, <<0, 0>>),
             "application/pdf")

\* What a certificate or letter fetch can be given, those PDFs included.
RenderResponses == Responses \cup {PdfNoPage, PdfZeroWidth, PdfUnembeddable}

\* Records with a certificate, a letter of two pieces, or both.
RenderRecords ==
    LET sijil == "Sijil_Link" :> <<"s", "i", "j", "i", "l", "1">>
        surat == "Surat_Link" :>
                     <<"s", "u", "r", "a", "t", "1", ",", "s", "u", "r", "a", "t", "2">>
    IN  {InfoFields @@ sijil, InfoFields @@ surat, InfoFields @@ sijil @@ surat}

InitRender == \E d \in RenderRecords : Started(d) /\ NoCall /\ Alone /\ NoApp

SijilRender ==
    /\ pc = "sijil"
    /\ \E resp \in RenderResponses : SetState(SijilStep(State, data_dict, resp))

SuratRender ==
    /\ pc = "surat_loop"
    /\ \E resp \in RenderResponses : SetState(SuratStep(State, resp))

\* generate_pdf on a record with no photo.
NextRender ==
    \/ Info
    \/ SijilRender
    \/ SuratSplit
    \/ SuratRender
    \/ FotoCollect
    \/ Save

SpecRender == InitRender /\ [][NextRender]_vars

\* The canvas graphics state a page starts in: no transform applied,
\* nothing saved.
PlainState == [ctm |-> <<>>, stack |-> <<>>]

\* The graphics state after the operations ops, starting from g: saveState
\* pushes the current transform, translate and scale add to it,
\* restoreState pops it back.
RECURSIVE GState(_, _)
GState(ops, g) ==
    IF ops = <<>> THEN g
    ELSE LET o == Head(ops).op
             n == CASE o = "saveState" ->
                         [g EXCEPT !.stack = Append(@, g.ctm)]
                    [] o = "transform" ->
                         [g EXCEPT !.ctm = Append(@, "translate, scale")]
                    [] o = "restoreState" /\ g.stack # <<>> ->
                         [ctm |-> g.stack[Len(g.stack)],
                          stack |-> SubSeq(g.stack, 1, Len(g.stack) - 1)]
                    [] OTHER -> g
         IN  GState(Tail(ops), n)

\* C20: the translate and scale of render_pdf_page do not outlive the call:
\* every string drawn on a page, a placeholder included, is drawn in the
\* graphics state the page started in, and so ends every certificate and
\* letter page.
C20_TransformScoped ==
    \A p \in {pages[k] : k \in 1..Len(pages)} \cup {page} :
        /\ GState(p, PlainState) = PlainState
        /\ \A k \in 1..Len(p) :
              p[k].op = "drawString" =>
                  GState(SubSeq(p, 1, k - 1), PlainState) = PlainState

\* ------------------------------------------ render_pdf_page on its own

\* The largest page index render_pdf_page is called with, and the smallest
\* negated.
MaxPageIdx == 4

Portrait == <<0, 0, 595, 842>>
Landscape == <<0, 0, 842, 595>>

\* The bytes render_pdf_page is called on: bytes that are no PDF, PDFs of
\* zero to three pages, a page of width 0, of height 0, a page with no
\* MediaBox, and a page that cannot be embedded.
RenderBodies ==
    {BrokenBody, HtmlBody, ImageBody,
     Body("pdf", <<>>, <<0, 0>>),
     Body("pdf", <<Portrait>>, <<0, 0>>),
     Body("pdf", <<Portrait, Landscape>>, <<0, 0>>),
     Body("pdf", <<Portrait, Landscape, <<0, 0, 100, 100>> >>, <<0, 0>>),
     Body("pdf", << <<0, 0, 0, 842>> >>, <<0, 0>>),
     Body("pdf", <<Portrait, <<0, 0, 595, 0>> >>, <<0, 0>>),
     Body("pdf", <<Portrait, <<>> >>, <<0, 0>>),
     Body("pdf-unembeddable", <<Portrait>>, <<0, 0>>)}

\* What the canvas page holds when render_pdf_page is called: nothing, or
\* the heading its caller drew.
RenderPages == {<<>>, <<DrawString("SIJIL / PENGHARGAAN", 0, <<>>)>>}

InitRenderCall ==
    \E b \in RenderBodies, k \in (-MaxPageIdx)..MaxPageIdx,
       before \in RenderPages :
        /\ At(Empty, [StartState EXCEPT !.pc = "render_pdf_page",
                                        !.page = before])
        /\ arg = [pdf_bytes |-> b, page_idx |-> k, page |-> before]
        /\ ret = [ok |-> FALSE]
        /\ Alone
        /\ NoApp

\* render_pdf_page(c, arg.pdf_bytes, arg.page_idx) called and returned.
RenderPdfCall ==
    /\ pc = "render_pdf_page"
    /\ LET r == render_pdf_page(page, arg.pdf_bytes, arg.page_idx)
       IN  /\ ret' = [ok |-> r.ok]
           /\ page' = r.page
    /\ pc' = "returned_ok"
    /\ UNCHANGED <<data_dict, pages, urls, idx, img_urls, i,
                   valid_img_count, calls, net, result, arg, second,
                   sheet, drive, app>>

NextRenderCall == RenderPdfCall

SpecRenderCall == InitRenderCall /\ [][NextRenderCall]_vars

\* The call of render_pdf_page has returned.
RenderReturned == pc = "returned_ok"

\* The page index of the call lies in 0..page_count-1.
IndexInRange ==
    arg.page_idx \in 0..(Len(arg.pdf_bytes.boxes) - 1)

\* The page the call's index selects has a MediaBox of width or height 0.
ZeroBox ==
    /\ IndexInRange
    /\ arg.pdf_bytes.boxes[arg.page_idx + 1] # <<>>
    /\ \/ arg.pdf_bytes.boxes[arg.page_idx + 1][3] = 0
       \/ arg.pdf_bytes.boxes[arg.page_idx + 1][4] = 0

\* C21: render_pdf_page returns not-drawn and leaves the canvas page as it
\* was when the bytes are not a PDF, when the page index is outside
\* 0..page_count-1, negative indexes included, or when the MediaBox of the
\* page has width or height 0; and when it returns drawn the page content
\* has been drawn.
C21_NotDrawnOutsideRange ==
    RenderReturned =>
        /\ (\/ arg.pdf_bytes.kind \notin PdfKinds
            \/ ~IndexInRange
            \/ ZeroBox)
              => ret.ok = FALSE /\ page = arg.page
        /\ ret.ok = TRUE
              => \E k \in 1..Len(page) : page[k] = DoForm(arg.page_idx)

\* ------------------------------------------------ sizes of attachments

\* The MediaBox sizes and pixel sizes attachments come in: wider and taller
\* than the target, square, and very elongated either way.
ScaleSizes ==
    {<<4, 3>>, <<3, 4>>, <<1, 1>>, <<595, 842>>, <<842, 595>>,
     <<1000, 10>>, <<7, 1000>>}

PdfOfSize(sz) ==
    Response(200, Body("pdf", << <<0, 0, sz[1], sz[2]>> >>, <<0, 0>>),
             "application/pdf")
ImageOfSize(sz) == Response(200, Body("image", <<>>, sz), "image/png")

\* What a certificate or letter fetch is given, and what a photo fetch is.
ScaleResponses ==
    {PdfOfSize(sz) : sz \in ScaleSizes} \cup {ImageOfSize(sz) : sz \in ScaleSizes}
ScaleFotoResponses == {ImageOfSize(sz) : sz \in ScaleSizes} \ {ImageOfSize(<<1, 1>>)}

\* A record with a certificate and a letter, and one with four photos.
ScaleRecords ==
    {InfoFields @@ ("Sijil_Link" :> <<"s", "i", "j", "i", "l", "1">>)
                @@ ("Surat_Link" :> <<"s", "u", "r", "a", "t", "1">>),
     InfoFields @@ [c \in {target_cols[k] : k \in 1..Len(target_cols)} |->
                       FotoUrl(CHOOSE k \in 1..Len(target_cols) :
                                   target_cols[k] = c)]}

InitScale == \E d \in ScaleRecords : Started(d) /\ NoCall /\ Alone /\ NoApp

SijilScale ==
    /\ pc = "sijil"
    /\ \E resp \in ScaleResponses : SetState(SijilStep(State, data_dict, resp))

SuratScale ==
    /\ pc = "surat_loop"
    /\ \E resp \in ScaleResponses : SetState(SuratStep(State, resp))

FotoScale ==
    /\ pc = "foto_loop"
    /\ i < Len(img_urls)
    /\ \E resp \in ScaleFotoResponses : SetState(FotoStep(State, resp))

NextScale ==
    \/ Info
    \/ SijilScale
    \/ SuratSplit
    \/ SuratScale
    \/ FotoCollect
    \/ FotoScale
    \/ FotoEnd
    \/ Save

SpecScale == InitScale /\ [][NextScale]_vars

\* The region of the page left by a margin on every side, as
\* <<x, y, width, height>>.
Inside(margin) ==
    <<Num(margin), Num(margin),
      Num(A4[1] - 2 * margin), Num(A4[2] - 2 * margin)>>

\* The region of cell `slot` of the 2 x 2 grid: the cell, 80 mm by 123.5 mm
\* below the heading band of 40 mm, less 5 mm on every side.
CellRegion(slot) ==
    LET row == slot \div PerRow
        col == slot % PerRow
        cell_w == (A4[1] - 50 * mm) \div 2
        cell_h == (A4[2] - 50 * mm) \div 2
    IN  <<Num(25 * mm + col * cell_w + 5 * mm),
          Num(A4[2] - 40 * mm - (row + 1) * cell_h + 5 * mm),
          Num(cell_w - 10 * mm), Num(cell_h - 10 * mm)>>

\* The scale law: content of size src placed at <<x, y>> with drawn size
\* <<dw, dh>> in the region avail.
ScaleLaw(src, avail, x, y, dw, dh) ==
    LET scale == QMin(QDiv(avail[3], Num(src[1])), QDiv(avail[4], Num(src[2])))
    IN  /\ dw = QMul(Num(src[1]), scale)
        /\ dh = QMul(Num(src[2]), scale)
        /\ QLe(dw, avail[3])
        /\ QLe(dh, avail[4])
        /\ QMul(dw, Num(src[2])) = QMul(dh, Num(src[1]))
        /\ x = QAdd(avail[1], QDiv(QSub(avail[3], dw), Num(2)))
        /\ y = QAdd(avail[2], QDiv(QSub(avail[4], dh), Num(2)))

\* The operations of a page that place content.
Placed(p) == SelectSeq(p, LAMBDA o : o.op \in {"transform", "drawImage"})

\* The scale law for the one attachment of a full page, fetched as resp.
FullPageLaw(p, resp) ==
    /\ Len(Placed(p)) = 1
    /\ LET o == Placed(p)[1]
       IN  IF resp.content.kind = "pdf"
           THEN /\ o.op = "transform"
                /\ ScaleLaw(<<resp.content.boxes[1][3], resp.content.boxes[1][4]>>,
                            Inside(15 * mm), o.box[1], o.box[2],
                            QMul(Num(resp.content.boxes[1][3]), o.box[3]),
                            QMul(Num(resp.content.boxes[1][4]), o.box[4]))
           ELSE /\ o.op = "drawImage"
                /\ ScaleLaw(resp.content.size, Inside(20 * mm),
                            o.box[1], o.box[2], o.box[3], o.box[4])

\* The drawImage operations of the pages ps, in order.
RECURSIVE AllImages(_)
AllImages(ps) ==
    IF ps = <<>> THEN <<>> ELSE Images(Head(ps)) \o AllImages(Tail(ps))

\* C22: every embedded page and image, on a full page or in a grid cell, is
\* drawn at scale min(avail_w/src_w, avail_h/src_h) with drawn size
\* (src_w * scale, src_h * scale): neither drawn dimension exceeds the
\* available one, the aspect ratio is kept, and the content is centered in
\* its region with offset (avail - drawn) / 2 on each axis.
C22_ScaleLaw ==
    /\ \A sec \in {"SIJIL", "SURAT"} :
          LET ps == PagesOf(pages, sec)
              cs == CallsOf(calls, sec)
          IN  /\ Len(ps) = Len(cs)
              /\ \A k \in 1..Len(ps) : FullPageLaw(ps[k], cs[k].resp)
    /\ LET cells == AllImages(FotoPages)
           acc == AcceptedCalls
       IN  /\ Len(cells) = Len(acc)
           /\ \A k \in 1..Len(cells) :
                 ScaleLaw(acc[k].resp.content.size, CellRegion(cells[k].ord),
                          cells[k].box[1], cells[k].box[2],
                          cells[k].box[3], cells[k].box[4])

\* A landscape PDF drawn 180 mm wide, scaled by 180/421, and a portrait
\* image drawn 170 mm wide, each centered on its page.
C22_ScaledFullPages ==
    /\ Done
    /\ Len(calls) = 2
    /\ calls[1].resp = PdfOfSize(<<842, 595>>)
    /\ calls[2].resp = ImageOfSize(<<3, 4>>)
    /\ Placed(pages[2])[1].box =
           <<Num(15 * mm), Q(71487, 421), Q(180, 421), Q(180, 421)>>
    /\ Placed(pages[3])[1].box =
           <<Num(20 * mm), Q(211, 3), Num(340), Q(1360, 3)>>

\* ------------------------------------------------ long field values

\* The longest field value tried.
MaxLongLen == 78

Digits == <<"0", "1", "2", "3", "4", "5", "6", "7", "8", "9">>

\* A value of n characters, the k-th being the last digit of k.
LongValue(n) == [k \in 1..n |-> Digits[(k % 10) + 1]]

\* Records with one value of 73 to MaxLongLen characters, bare or wrapped
\* in white space, under one of four keys.
LongRecords ==
    {("Kelas" :> <<"5", "A">>) @@ (key :> v) :
        key \in {"Nama", "Tarikh", "Tempat", "Pencapaian"},
        v \in {LongValue(n) : n \in (MaxValueLen - 2)..MaxLongLen}
              \cup {<<" ">> \o LongValue(n) \o <<"\n">> :
                       n \in (MaxValueLen - 2)..MaxLongLen}}

InitLong == \E d \in LongRecords : Started(d) /\ NoCall /\ Alone /\ NoApp

SpecLong == InitLong /\ [][NextFields]_vars

\* C23: on the info page a field value of more than 75 characters is drawn
\* as its first 75 characters followed by "...", and a value of 75
\* characters or fewer is drawn unchanged.
C23_TruncatedAt75 ==
    pages # <<>> =>
        \A k \in 1..Len(Fields(data_dict)) :
            LET value == Fields(data_dict)[k][2]
                drawn == DrawnValue(pages[1], Fields(data_dict)[k][1])
            IN  IF Len(value) > 75
                THEN /\ Len(drawn) = 78
                     /\ SubSeq(drawn, 1, 75) = SubSeq(value, 1, 75)
                     /\ SubSeq(drawn, 76, 78) = <<".", ".", ".">>
                ELSE drawn = value

\* A place name of 76 characters drawn as 75 characters and the ellipsis,
\* on a page returned.
C23_EllipsisDrawn ==
    /\ Done
    /\ "Tempat" \in DOMAIN data_dict
    /\ data_dict["Tempat"] = LongValue(76)
    /\ DrawnValue(pages[1], "Tempat") = LongValue(75) \o <<".", ".", ".">>

\* ------------------------------------------------ references by length

\* A reference of n characters.
LinkOfLen(n) == SubSeq(<<"l", "i", "n", "k", "0", "1", "2", "3", "4">>, 1, n)

\* The lengths of reference tried, around the two minimum-length tests.
LinkLens == (MinLinkLen - 1)..(MinLinkLen + 2)

\* Records whose certificate, letter and first photo references have each
\* a length around the minimum, the certificate under either of its keys,
\* bare or wrapped in white space.
GuardRecords ==
    {InfoFields @@ (key :> sijil) @@ ("Surat_Link" :> LinkOfLen(b))
                @@ ("Link_Foto1" :> LinkOfLen(c)) :
        key \in {"Sijil_Link", "Sijil"},
        sijil \in {LinkOfLen(a) : a \in LinkLens}
                  \cup {<<" ">> \o LinkOfLen(a) \o <<" ">> : a \in LinkLens},
        b \in LinkLens, c \in LinkLens}

InitGuard == \E d \in GuardRecords : Started(d) /\ NoCall /\ Alone /\ NoApp

SpecGuard == InitGuard /\ [][Next]_vars

\* C24: the certificate section fetches exactly when the certificate
\* reference, the first non-empty of "Sijil_Link" and "Sijil", is present
\* and longer than 5 characters; and every reference a certificate, a
\* letter page or a photo slot is fetched for is one download_file does not
\* refuse for its length, so that each such fetch is attempted on the network.
C24_TriggeredIsFetched ==
    /\ pc \notin {"info", "sijil"} =>
          (CallsOf(calls, "SIJIL") # <<>>
              <=> Truthy(SijilLink) /\ Len(SijilLink) > 5)
    /\ \A k \in 1..Len(calls) : Len(calls[k].url) >= 5
    /\ Len(net) = Len(calls)

\* A certificate, a letter and a photo reference of 6 characters each, and
\* the three fetches attempted.
C24_SixCharactersFetched ==
    /\ Done
    /\ Len(calls) = 3
    /\ \A k \in 1..3 : Len(calls[k].url) = 6
    /\ [k \in 1..3 |-> calls[k].sec] = <<"SIJIL", "SURAT", "FOTO">>
    /\ net = [k \in 1..3 |-> calls[k].url]

\* ------------------------------------------------ the record

\* C25: generate_pdf only reads the record it is given: no step of an
\* invocation changes a key or a value of data_dict, so the record holds
\* after the return what it held before the call.
C25_RecordReadOnly == [][data_dict' = data_dict]_vars

\* A report returned for a record whose letter reference is wrapped in
\* white space: the stripped copy was fetched and the record still holds
\* the reference as given.
C25_RecordKeptAsGiven ==
    /\ Done
    /\ "Surat Jemputan" \in DOMAIN data_dict
    /\ data_dict["Surat Jemputan"] =
           <<" ", "s", "u", "r", "a", "t", "3", " ", ",", "a", "b">>
    /\ urls = << <<"s", "u", "r", "a", "t", "3">> >>
    /\ CallsOf(calls, "SURAT") # <<>>

\* ------------------------------------------------ photos that do not decode

\* The answers given to the calls so far, every image that does not decode
\* replaced by one that does.
Decoding ==
    [k \in 1..Len(calls) |->
        IF calls[k].resp = ImageBroken THEN ImageDrawn ELSE calls[k].resp]

\* C26: the slot counter counts every photo fetched with status 200 and an
\* image content-type, whether or not its bytes decode; an image that does
\* not decode draws nothing, and every other image is drawn on the page and
\* in the cell where it is drawn when all of them decode.
C26_UndecodedKeepsSlot ==
    /\ valid_img_count = Len(AcceptedCalls)
    /\ Done =>
          LET acc == AcceptedCalls
              fp == PagesOf(pages, "FOTO")
              ip == PagesOf(Run(StartState, data_dict, Decoding).pages, "FOTO")
          IN  /\ Len(fp) = Len(ip)
              /\ \A j \in 1..Len(fp) :
                    Images(fp[j]) =
                        SelectSeq(Images(ip[j]),
                                  LAMBDA o : acc[PerPage * (j - 1) + o.ord + 1]
                                                 .resp.content.kind = "image")

\* Of three photos the second does not decode: the third is drawn in the
\* third cell, and the second cell is left empty.
C26_EmptyCellBetween ==
    /\ Done
    /\ [k \in 1..Len(calls) |-> calls[k].resp]
           = <<ImageDrawn, ImageBroken, ImageDrawn>>
    /\ valid_img_count = 3
    /\ SlotsOn(PagesOf(pages, "FOTO"), 0) = <<0, 2>>

\* ------------------------------------------------ 4. the app: submissions
\*
\* handle_submission of src/app.py with create_folder and upload_to_drive
\* of src/drive_handler.py and append_data_to_sheet of src/connection.py.
\* Each call of a Google service either goes through (ok) or raises.

\* The most photos a submission carries.
MaxGambar == 5

Folder == [kind |-> "folder", name |-> "folder", n |-> 0]
File(name, n) == [kind |-> "file", name |-> name, n |-> n]

\* create_folder(folder_name, parent_id) on the Drive contents dr.
create_folder(dr, ok) ==
    IF ok
    THEN [drive |-> Append(dr, Folder), id |-> <<Folder>>, raised |-> FALSE]
    ELSE [drive |-> dr, id |-> <<>>, raised |-> TRUE]

\* upload_to_drive(file, folder_id, filename): the link returned is that of
\* the file created; a failure to make the file public is logged only.
upload_to_drive(dr, file, ok) ==
    IF ok
    THEN [drive |-> Append(dr, file), link |-> <<file>>, raised |-> FALSE]
    ELSE [drive |-> dr, link |-> <<>>, raised |-> TRUE]

\* append_data_to_sheet(data_row, spreadsheet_id) on the rows sh.
append_data_to_sheet(sh, data_row, ok) ==
    IF ok
    THEN [sheet |-> Append(sh, data_row), raised |-> FALSE]
    ELSE [sheet |-> sh, raised |-> TRUE]

\* The handler's position, the services' contents and its locals, as a
\* record.
AppState == [pc |-> pc, sheet |-> sheet, drive |-> drive, app |-> app]

SetApp(x) ==
    /\ pc' = x.pc
    /\ sheet' = x.sheet
    /\ drive' = x.drive
    /\ app' = x.app
    /\ UNCHANGED <<data_dict, page, pages, urls, idx, img_urls, i,
                   valid_img_count, calls, net, result, arg, ret, second>>

\* A call of a Google service logged with its outcome.
Called(x, fn, ok) ==
    [x EXCEPT !.app.calls = Append(@, [fn |-> fn, ok |-> ok])]

\* except Exception as e: status.update(...); st.error(...), and the
\* function ends.
Reported(x) ==
    [x EXCEPT !.pc = "returned", !.app.shown = Append(@, "error"),
              !.app.returned = "None"]

\* "Mencipta folder Google Drive..." and the links dictionary.
FolderStep(x, ok) ==
    LET r == create_folder(x.drive, ok)
        x1 == Called(x, "create_folder", ok)
    IN  IF r.raised THEN Reported(x1)
        ELSE [x1 EXCEPT !.drive = r.drive, !.app.new_folder_id = r.id,
                        !.app.links = NoLinks, !.pc = "surat"]

\* if files['surat']: links['surat'] = upload_to_drive(...)
SuratUploadStep(x, files, ok) ==
    IF ~files.surat THEN [x EXCEPT !.pc = "sijil"]
    ELSE LET r == upload_to_drive(x.drive, File("Surat", 0), ok)
             x1 == Called(x, "upload_to_drive", ok)
         IN  IF r.raised THEN Reported(x1)
             ELSE [x1 EXCEPT !.drive = r.drive, !.app.links.surat = r.link,
                             !.pc = "sijil"]

\* if files['sijil']: links['sijil'] = upload_to_drive(...)
SijilUploadStep(x, files, ok) ==
    IF ~files.sijil THEN [x EXCEPT !.pc = "gambar", !.app.idx = 0]
    ELSE LET r == upload_to_drive(x.drive, File("Sijil", 0), ok)
             x1 == Called(x, "upload_to_drive", ok)
         IN  IF r.raised THEN Reported(x1)
             ELSE [x1 EXCEPT !.drive = r.drive, !.app.links.sijil = r.link,
                             !.pc = "gambar", !.app.idx = 0]

\* The photo loop going on to the next photo when an upload raises.
GambarUploadStepSkipFailed(x, ok) ==
    LET r == upload_to_drive(x.drive, File("Gambar", x.app.idx + 1), ok)
        x1 == Called(x, "upload_to_drive", ok)
    IN  [x1 EXCEPT !.drive = r.drive,
                   !.app.links.g[x.app.idx + 1] = r.link,
                   !.app.idx = @ + 1]

\* One iteration of `for idx, img in enumerate(files['gambar'][:4])`
GambarUploadStep(x, ok) ==
    LET r == upload_to_drive(x.drive, File("Gambar", x.app.idx + 1), ok)
        x1 == Called(x, "upload_to_drive", ok)
    IN  IF r.raised THEN Reported(x1)
        ELSE [x1 EXCEPT !.drive = r.drive,
                        !.app.links.g[x.app.idx + 1] = r.link,
                        !.app.idx = @ + 1]

\* "Menyimpan rekod...": the row with the six links, append_data_to_sheet,
\* and the success message.
AppendStep(x, ok) ==
    LET data_row == [links |-> x.app.links]
        r == append_data_to_sheet(x.sheet, data_row, ok)
        x1 == Called(x, "append_data_to_sheet", ok)
    IN  IF r.raised THEN Reported(x1)
        ELSE [x1 EXCEPT !.sheet = r.sheet, !.pc = "returned",
                        !.app.shown = Append(@, "success"),
                        !.app.returned = "None"]

\* files['gambar'][:4]
Sliced(n) == IF n < 4 THEN n ELSE 4

\* The submissions handled: a letter or none, a certificate or none, zero
\* to MaxGambar photos, on an empty sheet or one that holds a row.
OldRow == [links |-> [NoLinks EXCEPT !.sijil = <<File("Sijil", 0)>>]]
Submissions ==
    [surat : BOOLEAN, sijil : BOOLEAN, gambar : 0..MaxGambar,
     before : {<<>>, <<OldRow>>}]

InitSubmit ==
    \E f \in Submissions :
        /\ At(Empty, [StartState EXCEPT !.pc = "folder"])
        /\ arg = f
        /\ ret = [content |-> NoContent, ctype |-> "", req |-> <<>>]
        /\ Alone
        /\ sheet = f.before
        /\ drive = <<>>
        /\ app = IdleApp

CreateFolder ==
    pc = "folder" /\ \E ok \in BOOLEAN : SetApp(FolderStep(AppState, ok))

UploadSurat ==
    /\ pc = "surat"
    /\ \E ok \in BOOLEAN : SetApp(SuratUploadStep(AppState, arg, ok))

UploadSijil ==
    /\ pc = "sijil"
    /\ \E ok \in BOOLEAN : SetApp(SijilUploadStep(AppState, arg, ok))

UploadGambar ==
    /\ pc = "gambar"
    /\ app.idx < Sliced(arg.gambar)
    /\ \E ok \in BOOLEAN : SetApp(GambarUploadStep(AppState, ok))

AppendRow ==
    /\ pc = "gambar"
    /\ app.idx >= Sliced(arg.gambar)
    /\ \E ok \in BOOLEAN : SetApp(AppendStep(AppState, ok))

NextSubmit ==
    \/ CreateFolder
    \/ UploadSurat
    \/ UploadSijil
    \/ UploadGambar
    \/ AppendRow

SpecSubmit == InitSubmit /\ [][NextSubmit]_vars

\* What a submission puts on Drive when nothing fails, in order: the
\* folder, the letter, the certificate, the first four photos.
ExpectedOnDrive(f) ==
    <<Folder>>
        \o (IF f.surat THEN <<File("Surat", 0)>> ELSE <<>>)
        \o (IF f.sijil THEN <<File("Sijil", 0)>> ELSE <<>>)
        \o [k \in 1..(IF f.gambar < 4 THEN f.gambar ELSE 4) |->
               File("Gambar", k)]

IsPrefix(a, b) == Len(a) <= Len(b) /\ a = SubSeq(b, 1, Len(a))

\* The link of the file `file` if the submission f carries it, '' if not.
LinkIf(carried, file) == IF carried THEN <<file>> ELSE <<>>

\* C27: handle_submission creates the Drive folder, then uploads the
\* letter, the certificate and the first four photos at most, in that
\* order, then appends one row to the sheet: a row is appended only once
\* the folder and every upload have gone through, it carries their links,
\* and it is the only one; when a call raises nothing is attempted after
\* it, no row is appended, and the handler shows the error and returns.
C27_RowAfterUploads ==
    LET expected == ExpectedOnDrive(arg)
        added == Len(sheet) - Len(arg.before)
        n == Len(app.calls)
    IN  /\ IsPrefix(drive, expected)
        /\ IsPrefix(arg.before, sheet)
        /\ added \in {0, 1}
        /\ added = 1 =>
              /\ drive = expected
              /\ n = Len(expected) + 1
              /\ \A k \in 1..n : app.calls[k].ok
              /\ sheet[Len(sheet)].links =
                     [surat |-> LinkIf(arg.surat, File("Surat", 0)),
                      sijil |-> LinkIf(arg.sijil, File("Sijil", 0)),
                      g |-> [k \in 1..4 |->
                                LinkIf(k <= arg.gambar, File("Gambar", k))]]
              /\ app.shown = <<"success">>
        /\ \A k \in 1..n :
              ~app.calls[k].ok =>
                  /\ k = n
                  /\ added = 0
                  /\ app.shown = <<"error">>
                  /\ app.returned = "None"
                  /\ pc = "returned"

\* A submission with a letter, a certificate and five photos gone through:
\* the folder and six files on Drive, one row more on the sheet.
C27_FivePhotosFourUploaded ==
    /\ pc = "returned"
    /\ arg.surat /\ arg.sijil /\ arg.gambar = 5
    /\ Len(drive) = 7
    /\ Len(sheet) = Len(arg.before) + 1
    /\ app.shown = <<"success">>

\* ------------------------------------------------ 5. the app: admin edits
\*
\* handle_data_update of src/app.py with update_sheet of src/connection.py.
\* A data frame is the sequence of its rows, each [index, val].

\* The most rows the sheet holds.
MaxRows == 3

Row(k, v) == [index |-> k, val |-> v]
Indices(df) == {df[k].index : k \in 1..Len(df)}

\* current_df.update(edited_subset): a row whose index edited_subset has
\* takes its values; rows edited_subset has beyond those are ignored.
Updated(df, edited) ==
    [k \in 1..Len(df) |->
        IF df[k].index \in Indices(edited)
        THEN edited[CHOOSE j \in 1..Len(edited) :
                        edited[j].index = df[k].index]
        ELSE df[k]]

\* current_df.drop(index=list(deleted_indices))
Dropped(df, deleted_indices) ==
    SelectSeq(df, LAMBDA r : r.index \notin deleted_indices)

\* update_sheet(dataframe, spreadsheet_id) on the rows sh: the worksheet is
\* opened, cleared with worksheet.clear(), then written with
\* worksheet.update(data); `outcome` says which of these raises, if any.
update_sheet(sh, dataframe, outcome) ==
    CASE outcome = "open raises" -> [sheet |-> sh, raised |-> TRUE]
      [] outcome = "clear raises" -> [sheet |-> sh, raised |-> TRUE]
      [] outcome = "update raises" -> [sheet |-> <<>>, raised |-> TRUE]
      [] OTHER -> [sheet |-> dataframe, raised |-> FALSE]

SheetOutcomes == {"open raises", "clear raises", "update raises", "ok"}

\* current_df = full_df.copy() ... the date column cast to str.
SyncStep(x, a) ==
    LET scope_indices == Indices(a.filtered_scope_df)
        remaining_indices == Indices(a.edited_subset)
        deleted_indices == scope_indices \ remaining_indices
        current_df == Updated(a.full_df, a.edited_subset)
    IN  [x EXCEPT !.app.current_df =
                      IF deleted_indices # {}
                      THEN Dropped(current_df, deleted_indices)
                      ELSE current_df,
                  !.app.shown =
                      IF deleted_indices # {} THEN Append(@, "warning") ELSE @,
                  !.pc = "update_sheet"]

\* update_sheet(current_df, spreadsheet_id) and return True, or the except
\* clause and return False.
WriteStep(x, outcome) ==
    LET r == update_sheet(x.sheet, x.app.current_df, outcome)
        x1 == Called(x, "update_sheet", ~r.raised)
    IN  IF r.raised
        THEN [x1 EXCEPT !.sheet = r.sheet, !.pc = "returned",
                        !.app.shown = Append(@, "error"),
                        !.app.returned = "False"]
        ELSE [x1 EXCEPT !.sheet = r.sheet, !.pc = "returned",
                        !.app.shown = Append(@, "success"),
                        !.app.returned = "True"]

\* The frames of the admin page: full_df is what the sheet holds, rows
\* 0..n-1; filtered_scope_df is any selection of its rows; edited_subset is
\* what the editor returns for it, rows removed, rows changed, and a row
\* added with index n.
Frames ==
    LET full(n) == [k \in 1..n |-> Row(k - 1, "old")]
        pick(n, S) == SelectSeq(full(n), LAMBDA r : r.index \in S)
        edit(df, S) == [k \in 1..Len(df) |->
                           IF df[k].index \in S
                           THEN Row(df[k].index, "new") ELSE df[k]]
    IN  UNION {UNION {UNION {
            {[full_df |-> full(n),
              filtered_scope_df |-> pick(n, scope),
              edited_subset |-> edit(pick(n, kept), changed) \o added] :
                 added \in {<<>>, <<Row(n, "new")>>},
                 changed \in SUBSET kept} :
            kept \in SUBSET scope} :
            scope \in SUBSET (0..(n - 1))} :
            n \in 1..MaxRows}

InitUpdate ==
    \E a \in Frames :
        /\ At(Empty, [StartState EXCEPT !.pc = "sync"])
        /\ arg = a
        /\ ret = [content |-> NoContent, ctype |-> "", req |-> <<>>]
        /\ Alone
        /\ sheet = a.full_df
        /\ drive = <<>>
        /\ app = IdleApp

Sync == pc = "sync" /\ SetApp(SyncStep(AppState, arg))

Write ==
    /\ pc = "update_sheet"
    /\ \E outcome \in SheetOutcomes : SetApp(WriteStep(AppState, outcome))

NextUpdate ==
    \/ Sync
    \/ Write

SpecUpdate == InitUpdate /\ [][NextUpdate]_vars

\* C28: when handle_data_update has returned, every row gone from the
\* sheet has its index in the filtered scope, so that no row outside the
\* scope is deleted; when it returned True the rows gone are exactly those
\* of the scope absent from the edited subset; and when the write to the
\* sheet failed it returned False.
C28_OnlyScopedRowsDeleted ==
    pc = "returned" =>
        LET gone == Indices(arg.full_df) \ Indices(sheet)
            scope == Indices(arg.filtered_scope_df)
        IN  /\ gone \subseteq scope
            /\ app.returned = "True" =>
                  gone = scope \ Indices(arg.edited_subset)
            /\ (\E k \in 1..Len(app.calls) : ~app.calls[k].ok) =>
                  app.returned = "False"

====
